---- MODULE Spec2Model ----
(***************************************************************************)
(* A model of the user proxy (src/agents/user_proxy_agent.py) and of the   *)
(* three orchestrators (src/orchestrators/*.py).                           *)
(*                                                                         *)
(* A Python str is a sequence of one-character strings, so that lower(),   *)
(* the `in` substring test and the regular expressions of the code are     *)
(* computed on the characters.  A literal of the code that no test of the  *)
(* code looks into is one element of such a sequence.                      *)
(***************************************************************************)
EXTENDS Integers, Sequences, FiniteSets, TLC

VARIABLES
    \* UserProxyAgent
    user_context,              \* dict: preference key -> value
    conversation_history,      \* list of {role, content, timestamp}
    waiting_for_clarification, \* bool
    clarification_context,     \* dict with the keys "type" and "suggestion"
    debug,                     \* bool
    delegation_stats,          \* the three counters
    \* the orchestrator the proxy holds
    orchestrator_type,         \* "keyword", "rule" or "llm"
    agents,                    \* the registered specialists, in insertion order
    threads,                   \* dict: specialist -> thread handle, or NoAttr
    current_agent_name,        \* a specialist or None
    initialized,               \* _initialized
    routing_rules,             \* RuleBasedOrchestrator.routing_rules
    \* the world around them
    clock,                     \* datetime.now(), as a logical clock
    next_thread,               \* the next handle get_new_thread() gives out
    generators,                \* the stream objects handed to the caller
    appended,                  \* every entry _add_to_history appended since the last clear
    last,                      \* what the last call did and returned
    calls,                     \* how many calls of each kind the caller has made
    \* the servers (src/api)
    session_proxies,           \* dict: session_id -> the proxy of the session
    proxies,                   \* the UserProxyAgent objects created for sessions
    requests                   \* the requests received, each with its position

vars == <<user_context, conversation_history, waiting_for_clarification,
          clarification_context, debug, delegation_stats, orchestrator_type,
          agents, threads, current_agent_name, initialized, routing_rules,
          clock, next_thread, generators, appended, last, calls,
          session_proxies, proxies, requests>>

----------------------------------------------------------------------------
(* Python values *)

None == "None"
\* None where a str is expected
NoText == <<"<None>">>

EmptyDict == [k \in {} |-> NoText]
DictGet(d, k) == IF k \in DOMAIN d THEN d[k] ELSE NoText
DictSet(d, k, v) == [x \in (DOMAIN d) \cup {k} |-> IF x = k THEN v ELSE d[x]]
\* bool(v) of an optional str
Truthy(v) == v # NoText /\ v # <<>>

----------------------------------------------------------------------------
(* str operations *)

UpperLetters == <<"A","B","C","D","E","F","G","H","I","J","K","L","M",
                  "N","O","P","Q","R","S","T","U","V","W","X","Y","Z">>
LowerLetters == <<"a","b","c","d","e","f","g","h","i","j","k","l","m",
                  "n","o","p","q","r","s","t","u","v","w","x","y","z">>
Digits == {"0","1","2","3","4","5","6","7","8","9"}
Range(s) == {s[i] : i \in DOMAIN s}

LowerChar(c) ==
    IF \E i \in DOMAIN UpperLetters : UpperLetters[i] = c
    THEN LowerLetters[CHOOSE i \in DOMAIN UpperLetters : UpperLetters[i] = c]
    ELSE c

\* str.lower()
RECURSIVE Lower(_)
Lower(s) == IF s = <<>> THEN <<>> ELSE <<LowerChar(Head(s))>> \o Lower(Tail(s))

\* `sub in s`
Contains(s, sub) ==
    \E i \in 1..(Len(s) - Len(sub) + 1) : SubSeq(s, i, i + Len(sub) - 1) = sub

\* \w of a regular expression
WordChars == Range(UpperLetters) \cup Range(LowerLetters) \cup Digits \cup {"_"}
IsWordChar(c) == c \in WordChars
\* \s
IsSpace(c) == c \in {" ", "\t", "\n"}

\* re.search(r'\bw\b', s) for a word w of letters
HasWord(s, w) ==
    \E i \in 1..(Len(s) - Len(w) + 1) :
        /\ SubSeq(s, i, i + Len(w) - 1) = w
        /\ (i = 1 \/ ~IsWordChar(s[i - 1]))
        /\ (i + Len(w) - 1 = Len(s) \/ ~IsWordChar(s[i + Len(w)]))

\* re.search(r'[\w-]+/[\w-]+', s)
HasRepoToken(s) ==
    \E i \in 2..(Len(s) - 1) :
        /\ s[i] = "/"
        /\ (IsWordChar(s[i - 1]) \/ s[i - 1] = "-")
        /\ (IsWordChar(s[i + 1]) \/ s[i + 1] = "-")

\* str.strip()
RECURSIVE LStrip(_)
LStrip(s) == IF s # <<>> /\ IsSpace(Head(s)) THEN LStrip(Tail(s)) ELSE s
RECURSIVE RStrip(_)
RStrip(s) ==
    IF s # <<>> /\ IsSpace(s[Len(s)]) THEN RStrip(SubSeq(s, 1, Len(s) - 1)) ELSE s
Strip(s) == RStrip(LStrip(s))

\* str.startswith
StartsWith(s, p) == Len(s) >= Len(p) /\ SubSeq(s, 1, Len(p)) = p

----------------------------------------------------------------------------
(* The literals of user_proxy_agent.py that the code looks into *)

ambiguous_pronouns == {<<"i","t">>, <<"t","h","a","t">>, <<"t","h","i","s">>,
                       <<"t","h","e","r","e">>}
clarification_keywords == {<<"f","i","l","e">>, <<"c","o","m","m","i","t">>,
                           <<"b","r","a","n","c","h">>,
                           <<"p","u","l","l"," ","r","e","q","u","e","s","t">>,
                           <<"i","s","s","u","e">>}
preprocess_keywords == {<<"f","i","l","e">>, <<"c","o","m","m","i","t">>,
                        <<"b","r","a","n","c","h">>, <<"r","e","p","o">>,
                        <<"c","o","d","e">>}
affirmative_tokens == {<<"y","e","s">>, <<"y">>, <<"o","k">>, <<"s","u","r","e">>,
                       <<"d","e","f","a","u","l","t">>,
                       <<"s","u","g","g","e","s","t","e","d">>}
vague_heads == {<<"h","e","l","p">>, <<"i","n","f","o">>,
                <<"t","e","l","l"," ","m","e">>, <<"s","h","o","w"," ","m","e">>,
                <<"w","h","a","t">>}
vague_words == {<<"y","e","s">>, <<"n","o">>, <<"o","k">>, <<"o","k","a","y">>,
                <<"s","u","r","e">>}
w_about == <<"a","b","o","u","t">>
w_repo == <<"r","e","p","o">>
w_repository == <<"r","e","p","o","s","i","t","o","r","y">>
k_default_repo == <<"d","e","f","a","u","l","t","_","r","e","p","o">>
suggested_repo == <<"d","r","e","w","e","l","e","w","i","s","/","C","o","n","t","o",
                    "s","o","B","a","n","k","A","P","I">>
annotation_open == <<" ","(","u","s","i","n","g"," ","r","e","p","o","s","i","t","o",
                     "r","y",":"," ">>
annotation_close == <<")">>

\* len(conversation_history) < 2
HistoryContextLen == 2
\* Keep last 20 messages
HistoryCap == 20

----------------------------------------------------------------------------
(* UserProxyAgent: the parts of a call that read the state *)

\* re.search(r'\b(it|that|this|there)\b', user_lower)
HasAmbiguousPronoun(user_lower) == \E w \in ambiguous_pronouns : HasWord(user_lower, w)

\* a variant of NamesRepository: the owner/repo token alone
NamesRepositoryByToken(user_input) == HasRepoToken(user_input)

\* re.search(r'repo|repository|[\w-]+/[\w-]+', user_input)
NamesRepository(user_input) ==
    \/ Contains(user_input, w_repo)
    \/ Contains(user_input, w_repository)
    \/ HasRepoToken(user_input)

\* re.match(r'^(help|info|tell me|show me|what)(\s+about)?$', s): s is stripped,
\* so the $ is the end of s
MatchesVagueHead(s) ==
    \E h \in vague_heads :
        \/ s = h
        \/ /\ StartsWith(s, h)
           /\ Len(s) > Len(h) + Len(w_about)
           /\ SubSeq(s, Len(s) - Len(w_about) + 1, Len(s)) = w_about
           /\ \A i \in (Len(h) + 1)..(Len(s) - Len(w_about)) : IsSpace(s[i])

IsVague(user_lower) ==
    LET s == Strip(user_lower) IN MatchesVagueHead(s) \/ s \in vague_words

----------------------------------------------------------------------------
(* The orchestrators: routing strategies *)

AgentNames == <<"github", "math">>
AgentText(name) == IF name = "github" THEN <<"g","i","t","h","u","b">> ELSE <<"m","a","t","h">>

UpperChar(c) ==
    IF \E i \in DOMAIN LowerLetters : LowerLetters[i] = c
    THEN UpperLetters[CHOOSE i \in DOMAIN LowerLetters : LowerLetters[i] = c]
    ELSE c
\* str.title() of one word
Title(s) == IF s = <<>> THEN s ELSE <<UpperChar(s[1])>> \o Lower(Tail(s))

\* get_agent_keywords (the same table in KeywordOrchestrator and LLMOrchestrator)
get_agent_keywords(name) ==
    IF name = "github"
    THEN <<<<"g","i","t","h","u","b">>, <<"r","e","p","o","s","i","t","o","r","y">>, <<"r","e","p","o">>, <<"c","o","d","e">>, <<"f","i","l","e">>, <<"b","r","a","n","c","h">>,
           <<"c","o","m","m","i","t">>, <<"p","u","l","l">>, <<"i","s","s","u","e">>, <<"f","o","r","k">>>>
    ELSE <<<<"c","a","l","c","u","l","a","t","e">>, <<"m","a","t","h">>, <<"a","d","d">>, <<"s","u","b","t","r","a","c","t">>, <<"m","u","l","t","i","p","l","y">>, <<"d","i","v","i","d","e">>,
           <<"e","q","u","a","t","i","o","n">>, <<"e","x","p","r","e","s","s","i","o","n">>, <<"n","u","m","b","e","r">>, <<"c","o","m","p","u","t","e">>>>

Operators == {"+", "-", "*", "/", "^", "%"}

\* re.search(r'\d+\s*[\+\-\*\/\^%]\s*\d+', s)
HasMathPattern(s) ==
    \E i \in DOMAIN s :
        /\ s[i] \in Operators
        /\ \E j \in 1..(i - 1) :
              s[j] \in Digits /\ \A m \in (j + 1)..(i - 1) : IsSpace(s[m])
        /\ \E k \in (i + 1)..Len(s) :
              s[k] \in Digits /\ \A m \in (i + 1)..(k - 1) : IsSpace(s[m])

\* re.search(r'what\s+is\s+\d+', s)
HasWhatIsNumber(s) ==
    \E i \in 1..(Len(s) - 3) :
        /\ SubSeq(s, i, i + 3) = <<"w","h","a","t">>
        /\ \E j \in (i + 5)..(Len(s) - 1) :
              /\ \A m \in (i + 4)..(j - 1) : IsSpace(s[m])
              /\ SubSeq(s, j, j + 1) = <<"i","s">>
              /\ \E k \in (j + 3)..Len(s) :
                    /\ \A m \in (j + 2)..(k - 1) : IsSpace(s[m])
                    /\ s[k] \in Digits

\* sum(1 for keyword in agent_keywords if keyword in user_lower)
KeywordScore(name, user_lower) ==
    Cardinality({i \in DOMAIN get_agent_keywords(name) :
                    Contains(user_lower, get_agent_keywords(name)[i])})

MathBoost == 5
WhatIsBoost == 3

\* a variant of ArgMax: the last name of the table with the maximum score
ArgMaxLast(scores) ==
    AgentNames[CHOOSE i \in DOMAIN AgentNames :
        /\ \A j \in DOMAIN AgentNames : scores[AgentNames[j]] <= scores[AgentNames[i]]
        /\ \A j \in (i + 1)..Len(AgentNames) : scores[AgentNames[j]] < scores[AgentNames[i]]]

\* max(scores, key=scores.get): the first name of the table with the maximum score
ArgMax(scores) ==
    AgentNames[CHOOSE i \in DOMAIN AgentNames :
        /\ \A j \in DOMAIN AgentNames : scores[AgentNames[j]] <= scores[AgentNames[i]]
        /\ \A j \in 1..(i - 1) : scores[AgentNames[j]] < scores[AgentNames[i]]]

ScoresMax(scores) ==
    CHOOSE m \in {scores[n] : n \in Range(AgentNames)} :
        \A n \in Range(AgentNames) : scores[n] <= m

\* a variant of get_agent_by_keywords without the test max_score > 0
get_agent_by_keywords_any_score(user_input) ==
    LET user_lower == Lower(user_input)
        scores == [n \in Range(AgentNames) |->
                     KeywordScore(n, user_lower)
                     + (IF n = "math" /\ HasMathPattern(user_input) THEN MathBoost ELSE 0)
                     + (IF n = "math" /\ HasWhatIsNumber(user_lower) THEN WhatIsBoost ELSE 0)]
    IN  ArgMax(scores)

\* a variant of get_agent_by_keywords without the boost of the math pattern
get_agent_by_keywords_unboosted(user_input) ==
    LET user_lower == Lower(user_input)
        scores == [n \in Range(AgentNames) |->
                     KeywordScore(n, user_lower)
                     + (IF n = "math" /\ HasWhatIsNumber(user_lower) THEN WhatIsBoost ELSE 0)]
    IN  IF ScoresMax(scores) > 0 THEN ArgMax(scores) ELSE None

\* KeywordOrchestrator.get_agent_by_keywords: a name, or None
get_agent_by_keywords(user_input) ==
    LET user_lower == Lower(user_input)
        scores == [n \in Range(AgentNames) |->
                     KeywordScore(n, user_lower)
                     + (IF n = "math" /\ HasMathPattern(user_input) THEN MathBoost ELSE 0)
                     + (IF n = "math" /\ HasWhatIsNumber(user_lower) THEN WhatIsBoost ELSE 0)]
    IN  IF ScoresMax(scores) > 0 THEN ArgMax(scores) ELSE None

\* LLMOrchestrator._fallback_keyword_routing
_fallback_keyword_routing(user_input) ==
    LET user_lower == Lower(user_input)
        scores == [n \in Range(AgentNames) |->
                     KeywordScore(n, user_lower)
                     + (IF n = "math" /\ HasMathPattern(user_input) THEN MathBoost ELSE 0)]
    IN  IF ScoresMax(scores) > 0 THEN ArgMax(scores) ELSE None

\* RoutingRule.condition of the eight rules of setup_rules
AnyIn(text, words) == \E w \in words : Contains(Lower(text), w)
RuleCondition(name, text) ==
    CASE name = "Complex Math Expression" -> HasMathPattern(text)
      [] name = "Code Analysis Rule" ->
            /\ AnyIn(text, {<<"a","n","a","l","y","z","e">>, <<"r","e","v","i","e","w">>, <<"c","h","e","c","k">>, <<"s","h","o","w">>, <<"b","r","o","w","s","e">>})
            /\ AnyIn(text, {<<"c","o","d","e">>, <<"r","e","p","o","s","i","t","o","r","y">>, <<"f","i","l","e">>, <<"f","u","n","c","t","i","o","n">>, <<"c","l","a","s","s">>})
      [] name = "Repository Operations" ->
            AnyIn(text, {<<"r","e","p","o","s","i","t","o","r","y">>, <<"r","e","p","o">>, <<"c","o","m","m","i","t">>, <<"b","r","a","n","c","h">>,
                         <<"p","u","l","l"," ","r","e","q","u","e","s","t">>, <<"f","o","r","k">>})
      [] name = "Math with Keywords" ->
            AnyIn(text, {<<"c","a","l","c","u","l","a","t","e">>, <<"c","o","m","p","u","t","e">>, <<"m","a","t","h">>, <<"e","q","u","a","t","i","o","n">>})
      [] name = "GitHub File Operations" ->
            AnyIn(text, {<<"s","h","o","w"," ","m","e">>, <<"g","e","t"," ","f","i","l","e">>, <<"b","r","o","w","s","e">>, <<"l","i","s","t"," ","r","e","p","o","s">>, <<"g","i","t","h","u","b">>})
      [] name = "Math Operations" ->
            AnyIn(text, {<<"a","d","d">>, <<"s","u","b","t","r","a","c","t">>, <<"m","u","l","t","i","p","l","y">>, <<"d","i","v","i","d","e">>, <<"p","o","w","e","r">>,
                         <<"m","o","d","u","l","o">>})
      [] name = "GitHub Fallback" ->
            AnyIn(text, {<<"g","i","t","h","u","b">>, <<"g","i","t">>, <<"r","e","p","o">>, <<"c","o","d","e">>, <<"f","i","l","e">>})
      [] name = "Math Fallback" -> AnyIn(text, {<<"m","a","t","h">>, <<"n","u","m","b","e","r">>, <<"e","x","p","r","e","s","s","i","o","n">>})

Rule(name, agent_key, priority) ==
    [name |-> name, agent_key |-> agent_key, priority |-> priority]

\* the rules setup_rules adds, in the order of its three extend calls
SetupRules ==
    << Rule("Complex Math Expression", "math", 95),
       Rule("Code Analysis Rule", "github", 90),
       Rule("Repository Operations", "github", 85),
       Rule("Math with Keywords", "math", 80),
       Rule("GitHub File Operations", "github", 50),
       Rule("Math Operations", "math", 50),
       Rule("GitHub Fallback", "github", 10),
       Rule("Math Fallback", "math", 10) >>

\* list.sort(key=priority, reverse=True): stable, equal priorities keep their order
RECURSIVE InsertRule(_, _)
InsertRule(sorted, r) ==
    IF sorted = <<>> THEN <<r>>
    ELSE IF Head(sorted).priority >= r.priority
         THEN <<Head(sorted)>> \o InsertRule(Tail(sorted), r)
         ELSE <<r>> \o sorted
RECURSIVE SortRules(_)
SortRules(rules) ==
    IF rules = <<>> THEN <<>>
    ELSE InsertRule(SortRules(SubSeq(rules, 1, Len(rules) - 1)), rules[Len(rules)])

\* RuleBasedOrchestrator.setup_rules
setup_rules(rules) == SortRules(rules \o SetupRules)

----------------------------------------------------------------------------
(* The texts the callers send.  The tests the code makes on a text (its    *)
(* regular expressions, its substring tests, the routing strategies) are   *)
(* computed on the characters once for each text, in Tests.                *)

Inputs == {<<"i","t">>, <<"l","i","s","t"," ","f","i","l","e","s">>, <<"y","e","s">>, <<"y">>, <<"f","i","l","e","s"," ","i","n"," ","r","e","p","o">>, <<"5"," ","+"," ","3">>,
           <<"c","o","m","m","i","t"," ","a","/","b">>, <<"o","p","e","n"," ","t","h","i","s"," ","R","e","p","o"," ","I","s","s","u","e">>, <<"s","h","o","w"," ","c","o","d","e">>}
\* the values default_repo takes: the suggestion, what the user sets, and ''
Repos == {suggested_repo, <<"a","c","m","e","/","w","i","d","g","e","t","s">>, <<>>}
Annotated(user_input, repo) == user_input \o annotation_open \o repo \o annotation_close
\* texts sent to an orchestrator that has no proxy before it
RoutingInputs == {<<"a","d","d"," ","2","*","3"," ","t","o"," ","f","i","l","e">>, <<"w","h","a","t"," ","i","s"," ","7">>,
                  <<"h","e","l","l","o">>}
\* texts with as many points for github as for math, and texts with one winner
TieInputs == {<<"a","d","d"," ","f","i","l","e">>, <<"c","o","m","p","u","t","e"," ","c","o","d","e"," ","n","u","m","b","e","r"," ","r","e","p","o">>, <<"w","h","a","t"," ","i","s"," ","7"," ","r","e","p","o"," ","c","o","d","e"," ","f","i","l","e">>,
              <<"a","d","d">>, <<"f","o","r","k">>, <<"w","h","a","t"," ","i","s"," ","7"," ","r","e","p","o">>}
Texts == Inputs \cup {Annotated(u, r) : u \in Inputs, r \in Repos \ {<<>>}}
         \cup RoutingInputs \cup TieInputs

RuleNames == {SetupRules[i].name : i \in DOMAIN SetupRules}

TestsOf(text) ==
    LET lower == Lower(text) IN
    [ambiguous_pronoun |-> HasAmbiguousPronoun(lower),
     clarification_keyword |-> \E keyword \in clarification_keywords :
                                  Contains(lower, keyword),
     names_repository |-> NamesRepository(text),
     vague |-> IsVague(lower),
     affirmative |-> lower \in affirmative_tokens,
     preprocess_keyword |-> \E keyword \in preprocess_keywords : Contains(lower, keyword),
     repo_token |-> HasRepoToken(text),
     by_keywords |-> get_agent_by_keywords(text),
     by_fallback |-> _fallback_keyword_routing(text),
     rules |-> {name \in RuleNames : RuleCondition(name, text)}]

Tests == [text \in Texts |-> TestsOf(text)]

(* The tests of the proxy and the selection of the rules, on the table *)

NoClarification == [type |-> None, message |-> NoText, suggestion |-> NoText]

\* a variant of _needs_clarification: the pronoun without the test of the history
_needs_clarification_any_turn(user_input, history, context) ==
    LET tests == Tests[user_input] IN
    IF tests.ambiguous_pronoun
    THEN [type |-> "ambiguous_reference",
          message |-> <<"I need more context. What specifically are you referring to?">>,
          suggestion |-> NoText]
    ELSE IF /\ tests.clarification_keyword
            /\ ~tests.names_repository
            /\ ~Truthy(DictGet(context, k_default_repo))
    THEN [type |-> "missing_repository",
          message |-> <<"Which repository would you like to work with?">>,
          suggestion |-> suggested_repo]
    ELSE IF tests.vague
    THEN [type |-> "vague_request",
          message |-> <<"I'd be happy to help! Could you be more specific?">>,
          suggestion |-> NoText]
    ELSE NoClarification

\* a variant of _needs_clarification: len(self.conversation_history) <= 2
_needs_clarification_two_entries(user_input, history, context) ==
    LET tests == Tests[user_input] IN
    IF tests.ambiguous_pronoun /\ Len(history) <= HistoryContextLen
    THEN [type |-> "ambiguous_reference",
          message |-> <<"I need more context. What specifically are you referring to?">>,
          suggestion |-> NoText]
    ELSE IF /\ tests.clarification_keyword
            /\ ~tests.names_repository
            /\ ~Truthy(DictGet(context, k_default_repo))
    THEN [type |-> "missing_repository",
          message |-> <<"Which repository would you like to work with?">>,
          suggestion |-> suggested_repo]
    ELSE IF tests.vague
    THEN [type |-> "vague_request",
          message |-> <<"I'd be happy to help! Could you be more specific?">>,
          suggestion |-> NoText]
    ELSE NoClarification

\* _needs_clarification: the clarification dict, or NoClarification for None
_needs_clarification(user_input, history, context) ==
    LET tests == Tests[user_input] IN
    IF tests.ambiguous_pronoun /\ Len(history) < HistoryContextLen
    THEN [type |-> "ambiguous_reference",
          message |-> <<"I need more context. What specifically are you referring to?">>,
          suggestion |-> NoText]
    ELSE IF /\ tests.clarification_keyword
            /\ ~tests.names_repository
            /\ ~Truthy(DictGet(context, k_default_repo))
    THEN [type |-> "missing_repository",
          message |-> <<"Which repository would you like to work with?">>,
          suggestion |-> suggested_repo]
    ELSE IF tests.vague
    THEN [type |-> "vague_request",
          message |-> <<"I'd be happy to help! Could you be more specific?">>,
          suggestion |-> NoText]
    ELSE NoClarification

\* the str _format_clarification_request returns
ClarificationMessage(clarification) ==
    <<"Clarification Needed: ">> \o clarification.message \o <<" Examples: ...">>
    \o (IF Truthy(clarification.suggestion)
        THEN <<" Suggestion: ">> \o clarification.suggestion
        ELSE <<>>)

\* the clarification_context _format_clarification_request leaves
ClarificationContextAfter(ctx, clarification) ==
    DictSet(IF Truthy(clarification.suggestion)
            THEN DictSet(ctx, "suggestion", clarification.suggestion)
            ELSE ctx,
            "type", <<clarification.type>>)

\* a variant of _preprocess_input without the test of the owner/repo token
_preprocess_input_unchecked(user_input, context) ==
    IF /\ Truthy(DictGet(context, k_default_repo))
       /\ Tests[user_input].preprocess_keyword
    THEN user_input \o annotation_open \o DictGet(context, k_default_repo)
         \o annotation_close
    ELSE user_input

\* _preprocess_input
_preprocess_input(user_input, context) ==
    IF /\ Truthy(DictGet(context, k_default_repo))
       /\ Tests[user_input].preprocess_keyword
       /\ ~Tests[user_input].repo_token
    THEN user_input \o annotation_open \o DictGet(context, k_default_repo)
         \o annotation_close
    ELSE user_input

\* a variant of get_agent_by_rules that goes on after a rule matched and
\* returns the target of the last rule that matches
get_agent_by_rules_last_match(rules, user_input) ==
    LET matching == {i \in DOMAIN rules : rules[i].name \in Tests[user_input].rules}
    IN  IF matching = {} THEN None
        ELSE rules[CHOOSE i \in matching : \A j \in matching : j <= i].agent_key

\* RuleBasedOrchestrator.get_agent_by_rules
RECURSIVE get_agent_by_rules(_, _)
get_agent_by_rules(rules, user_input) ==
    IF rules = <<>> THEN None
    ELSE IF Head(rules).name \in Tests[user_input].rules THEN Head(rules).agent_key
    ELSE get_agent_by_rules(Tail(rules), user_input)

----------------------------------------------------------------------------
(* The state as one value, so that a method is an operator from state to   *)
(* state.  ret is what the method returns or raises; obs is what the call  *)
(* under way has done so far.                                              *)

Ret(kind, what, text, info, items) ==
    [kind |-> kind, what |-> what, text |-> text, info |-> info, items |-> items]
\* a method that has not returned yet, or returned None
RetNone == Ret("none", "none", NoText, NoText, <<>>)
Raised(error) == Ret("raised", error, NoText, NoText, <<>>)
RetStr(what, text) == Ret("str", what, text, NoText, <<>>)
RetTuple(what, text, info) == Ret("tuple", what, text, info, <<>>)
RetGenerator(what, text, items) == Ret("generator", what, text, NoText, items)
RetPair(what, text) == Ret("pair", what, text, NoText, <<>>)

NoObs == [routed |-> <<>>, agent_runs |-> 0, clarified |-> None,
          user_entries |-> 0, depth |-> 0, selected |-> None,
          run |-> [chunks |-> <<>>, raises |-> FALSE]]

Self ==
    [user_context |-> user_context,
     conversation_history |-> conversation_history,
     waiting_for_clarification |-> waiting_for_clarification,
     clarification_context |-> clarification_context,
     debug |-> debug,
     delegation_stats |-> delegation_stats,
     orchestrator_type |-> orchestrator_type,
     agents |-> agents,
     threads |-> threads,
     current_agent_name |-> current_agent_name,
     initialized |-> initialized,
     routing_rules |-> routing_rules,
     clock |-> clock,
     next_thread |-> next_thread,
     appended |-> appended,
     ret |-> RetNone,
     obs |-> NoObs]

----------------------------------------------------------------------------
(* The orchestrators: state and operations *)

OrchestratorTypes == {"keyword", "rule", "llm"}

\* the attributes __init__ assigns: only KeywordOrchestrator has self.threads,
\* and no class assigns self.routing_agent
HasThreads(type) == type = "keyword"
HasRoutingAgent(type) == FALSE

\* self.agents[name] = ...
AddAgent(registry, name) ==
    IF name \in Range(registry) THEN registry ELSE Append(registry, name)

\* self.threads[name] = self.agents[name].get_new_thread()
NewThread(S, name) ==
    [S EXCEPT !.threads = DictSet(@, name, S.next_thread),
              !.next_thread = @ + 1]

\* What the specialist factories do is outside the orchestrators: a call of
\* create_github_agent or create_math_agent returns an agent or raises.
FactoryOutcomes == {"ok", "github raises", "math raises"}

\* a variant of initialize without the test of self._initialized
initialize_unguarded(S, factory) ==
    IF factory = "github raises" THEN [S EXCEPT !.ret = Raised("factory")]
    ELSE
      LET S1 == [S EXCEPT !.agents = AddAgent(@, "github")]
          S2 == IF HasThreads(S.orchestrator_type) THEN NewThread(S1, "github") ELSE S1
      IN  IF factory = "math raises" THEN [S2 EXCEPT !.ret = Raised("factory")]
          ELSE
            LET S3 == [S2 EXCEPT !.agents = AddAgent(@, "math")]
                S4 == IF HasThreads(S.orchestrator_type)
                      THEN NewThread(S3, "math") ELSE S3
                S5 == IF S.orchestrator_type = "rule"
                      THEN [S4 EXCEPT !.routing_rules = setup_rules(@)] ELSE S4
            IN  [S5 EXCEPT !.initialized = TRUE, !.ret = RetNone]

\* initialize of the three classes
initialize(S, factory) ==
    IF S.initialized THEN [S EXCEPT !.ret = RetNone]
    ELSE IF factory = "github raises" THEN [S EXCEPT !.ret = Raised("factory")]
    ELSE
      LET S1 == [S EXCEPT !.agents = AddAgent(@, "github")]
          S2 == IF HasThreads(S.orchestrator_type) THEN NewThread(S1, "github") ELSE S1
      IN  IF factory = "math raises" THEN [S2 EXCEPT !.ret = Raised("factory")]
          ELSE
            LET S3 == [S2 EXCEPT !.agents = AddAgent(@, "math")]
                S4 == IF HasThreads(S.orchestrator_type)
                      THEN NewThread(S3, "math") ELSE S3
                S5 == IF S.orchestrator_type = "rule"
                      THEN [S4 EXCEPT !.routing_rules = setup_rules(@)] ELSE S4
            IN  [S5 EXCEPT !.initialized = TRUE, !.ret = RetNone]

\* LLMOrchestrator.get_agent_by_llm: decision is the model's answer, stripped
\* and lowercased; reading self.routing_agent raises inside the try
get_agent_by_llm(S, user_input, decision) ==
    IF ~HasRoutingAgent(S.orchestrator_type) THEN Tests[user_input].by_fallback
    ELSE IF \E n \in Range(S.agents) : AgentText(n) = decision
         THEN CHOOSE n \in Range(S.agents) : AgentText(n) = decision
    ELSE IF decision = <<"n","o","n","e">> THEN None
    ELSE Tests[user_input].by_fallback

\* a variant of SelectAgent that keeps the current specialist when the
\* strategy selects none
SelectAgentSticky(S, user_input, decision) ==
    LET selected ==
            CASE S.orchestrator_type = "keyword" -> Tests[user_input].by_keywords
              [] S.orchestrator_type = "rule" -> get_agent_by_rules(S.routing_rules, user_input)
              [] S.orchestrator_type = "llm" -> get_agent_by_llm(S, user_input, decision)
    IN  IF selected = None THEN S.current_agent_name ELSE selected

\* the strategy of each class
SelectAgent(S, user_input, decision) ==
    CASE S.orchestrator_type = "keyword" -> Tests[user_input].by_keywords
      [] S.orchestrator_type = "rule" -> get_agent_by_rules(S.routing_rules, user_input)
      [] S.orchestrator_type = "llm" -> get_agent_by_llm(S, user_input, decision)

get_agent_selection_help(type) == <<"help of the orchestrator: ", type>>

SwitchNotice(type, name) ==
    (CASE type = "keyword" -> <<"Routed to: ">>
       [] type = "rule" -> <<"Rule-based routing to: ">>
       [] type = "llm" -> <<"LLM routed to: ">>)
    \o Title(AgentText(name)) \o <<" Agent">>

\* elements of a stream
TextItem(text) == [t |-> "text", v |-> text]
SentinelItem(info) == [t |-> "sentinel", v |-> info]
RaiseItem == [t |-> "raise", v |-> NoText]

RECURSIVE JoinTools(_)
JoinTools(tools) ==
    IF tools = <<>> THEN <<>>
    ELSE IF Len(tools) = 1 THEN <<tools[1]>>
    ELSE <<tools[1], ", ">> \o JoinTools(Tail(tools))

ToolSummary(tools) == <<"Tools used: ">> \o JoinTools(tools)

\* a variant of NewTools without the test `tool_name not in tool_calls_made`
NewToolsEveryReport(made, calls_) == calls_

\* the names of chunk.tool_calls that are not in tool_calls_made, in order
RECURSIVE NewTools(_, _)
NewTools(made, calls_) ==
    IF calls_ = <<>> THEN <<>>
    ELSE IF Head(calls_) \in Range(made) THEN NewTools(made, Tail(calls_))
    ELSE <<Head(calls_)>> \o NewTools(Append(made, Head(calls_)), Tail(calls_))

\* tool_calls_made after all chunks
RECURSIVE ToolsMade(_, _)
ToolsMade(made, chunks) ==
    IF chunks = <<>> THEN made
    ELSE ToolsMade(made \o NewTools(made, Head(chunks).tool_calls), Tail(chunks))

\* route_query, stream=False: response_text after the loop over the chunks
RECURSIVE CollectText(_)
CollectText(chunks) ==
    IF chunks = <<>> THEN <<>> ELSE Head(chunks).text \o CollectText(Tail(chunks))

\* a variant of ResponseText without the tool summary
ResponseTextNoSummary(chunks) == CollectText(chunks)

ResponseText(chunks) ==
    CollectText(chunks)
    \o (IF ToolsMade(<<>>, chunks) # <<>> THEN ToolSummary(ToolsMade(<<>>, chunks))
        ELSE <<>>)

\* route_query, stream=True: what response_generator yields for the chunks
RECURSIVE StreamChunks(_, _)
StreamChunks(made, chunks) ==
    IF chunks = <<>> THEN <<>>
    ELSE LET new == NewTools(made, Head(chunks).tool_calls)
         IN  [i \in 1..Len(new) |-> TextItem(<<"Calling tool: ", new[i]>>)]
             \o (IF Head(chunks).text # <<>> THEN <<TextItem(Head(chunks).text)>>
                 ELSE <<>>)
             \o StreamChunks(made \o new, Tail(chunks))

\* a variant of response_generator that yields the tool summary after the
\* final tuple
response_generator_summary_last(run, agent_switch_info) ==
    StreamChunks(<<>>, run.chunks)
    \o (IF run.raises THEN <<RaiseItem>>
        ELSE <<SentinelItem(agent_switch_info)>>
             \o (IF ToolsMade(<<>>, run.chunks) # <<>>
                 THEN <<TextItem(ToolSummary(ToolsMade(<<>>, run.chunks)))>>
                 ELSE <<>>))

response_generator(run, agent_switch_info) ==
    StreamChunks(<<>>, run.chunks)
    \o (IF run.raises THEN <<RaiseItem>>
        ELSE (IF ToolsMade(<<>>, run.chunks) # <<>>
              THEN <<TextItem(ToolSummary(ToolsMade(<<>>, run.chunks)))>> ELSE <<>>)
             \o <<SentinelItem(agent_switch_info)>>)

help_generator(help_response) == <<TextItem(help_response), SentinelItem(NoText)>>


\* the call of route_query, for the record of the call under way
Routed(S, user_input) == [S EXCEPT !.obs.routed = Append(@, user_input)]

\* a variant of Dispatch that leaves current_agent_name as it was
DispatchKeepsCurrent(S, user_input, stream, selected, run) ==
    LET agent_switch_info ==
            IF S.current_agent_name # selected
            THEN SwitchNotice(S.orchestrator_type, selected) ELSE NoText
        S1 == S
        S2 == [S1 EXCEPT !.obs.agent_runs = @ + 1, !.obs.run = run]
    IN  CASE S.orchestrator_type = "llm" ->
               \* response = await agent.run(user_input); stream is not looked at
               IF run.raises THEN [S2 EXCEPT !.ret = Raised("agent")]
               ELSE [S2 EXCEPT !.ret = RetTuple("answer", CollectText(run.chunks),
                                               agent_switch_info)]
          [] ~HasThreads(S.orchestrator_type) ->
               \* thread = self.threads[selected_agent_name]
               [S1 EXCEPT !.ret = Raised("AttributeError")]
          [] stream ->
               \* the agent runs when the generator is consumed
               [S1 EXCEPT !.obs.run = run,
                          !.ret = RetGenerator("answer", NoText,
                                      response_generator(run, agent_switch_info))]
          [] OTHER ->
               IF run.raises THEN [S2 EXCEPT !.ret = Raised("agent")]
               ELSE [S2 EXCEPT !.ret = RetTuple("answer", ResponseText(run.chunks),
                                               agent_switch_info)]

\* route_query after the selection: the switch, then the dispatch to the agent
Dispatch(S, user_input, stream, selected, run) ==
    LET agent_switch_info ==
            IF S.current_agent_name # selected
            THEN SwitchNotice(S.orchestrator_type, selected) ELSE NoText
        S1 == [S EXCEPT !.current_agent_name = selected]
        S2 == [S1 EXCEPT !.obs.agent_runs = @ + 1, !.obs.run = run]
    IN  CASE S.orchestrator_type = "llm" ->
               \* response = await agent.run(user_input); stream is not looked at
               IF run.raises THEN [S2 EXCEPT !.ret = Raised("agent")]
               ELSE [S2 EXCEPT !.ret = RetTuple("answer", CollectText(run.chunks),
                                               agent_switch_info)]
          [] ~HasThreads(S.orchestrator_type) ->
               \* thread = self.threads[selected_agent_name]
               [S1 EXCEPT !.ret = Raised("AttributeError")]
          [] stream ->
               \* the agent runs when the generator is consumed
               [S1 EXCEPT !.obs.run = run,
                          !.ret = RetGenerator("answer", NoText,
                                      response_generator(run, agent_switch_info))]
          [] OTHER ->
               IF run.raises THEN [S2 EXCEPT !.ret = Raised("agent")]
               ELSE [S2 EXCEPT !.ret = RetTuple("answer", ResponseText(run.chunks),
                                               agent_switch_info)]

\* route_query of the three classes
route_query(S, user_input, stream, env) ==
    LET called == Routed(S, user_input)
        S0 == IF called.initialized THEN [called EXCEPT !.ret = RetNone]
              ELSE initialize(called, env.factory)
    IN  IF S0.ret.kind = "raised" THEN S0
        ELSE
          LET selected == SelectAgent(S0, user_input, env.decision)
              S1 == [S0 EXCEPT !.obs.selected = selected]
              help_response == get_agent_selection_help(S.orchestrator_type)
          IN  IF selected = None
              THEN IF stream /\ S.orchestrator_type # "llm"
                   THEN [S1 EXCEPT !.ret = RetGenerator("help", NoText,
                                               help_generator(help_response))]
                   ELSE [S1 EXCEPT !.ret = RetTuple("help", help_response, NoText)]
              ELSE Dispatch(S1, user_input, stream, selected, env.run)

\* agent_map of switch_agent (the same in the three classes)
agent_map == << <<<<"g","i","t","h","u","b">>, "github">>, <<<<"g","i","t">>, "github">>, <<<<"c","o","d","e">>, "github">>,
                <<<<"m","a","t","h">>, "math">>, <<<<"c","a","l","c">>, "math">>, <<<<"c","a","l","c","u","l","a","t","o","r">>, "math">> >>

\* agent_map.get(identifier): a name or None
AgentMapGet(identifier) ==
    IF \E i \in DOMAIN agent_map : agent_map[i][1] = identifier
    THEN agent_map[CHOOSE i \in DOMAIN agent_map : agent_map[i][1] = identifier][2]
    ELSE None

RECURSIVE JoinKeys(_)
JoinKeys(map) ==
    IF map = <<>> THEN <<>>
    ELSE IF Len(map) = 1 THEN map[1][1]
    ELSE map[1][1] \o <<",", " ">> \o JoinKeys(Tail(map))

UnknownAgentMessage(agent_identifier) ==
    <<"Unknown agent: ">> \o agent_identifier \o <<". Available: ">> \o JoinKeys(agent_map)

\* a variant of switch_agent: agent_map.get(agent_identifier), without lower()
switch_agent_case_sensitive(S, agent_identifier) ==
    LET agent_key == AgentMapGet(agent_identifier)
    IN  IF agent_key # None /\ agent_key \in Range(S.agents)
        THEN [S EXCEPT !.current_agent_name = agent_key,
                       !.ret = RetPair("success",
                                  <<"Switched to ">> \o Title(AgentText(agent_key))
                                  \o <<" Agent">>)]
        ELSE [S EXCEPT !.ret = RetPair("failure", UnknownAgentMessage(agent_identifier))]

\* a variant of switch_agent that does not look the name up in self.agents
switch_agent_unregistered(S, agent_identifier) ==
    LET agent_key == AgentMapGet(Lower(agent_identifier))
    IN  IF agent_key # None
        THEN [S EXCEPT !.current_agent_name = agent_key,
                       !.ret = RetPair("success",
                                  <<"Switched to ">> \o Title(AgentText(agent_key))
                                  \o <<" Agent">>)]
        ELSE [S EXCEPT !.ret = RetPair("failure", UnknownAgentMessage(agent_identifier))]

\* switch_agent
switch_agent(S, agent_identifier) ==
    LET agent_key == AgentMapGet(Lower(agent_identifier))
    IN  IF agent_key # None /\ agent_key \in Range(S.agents)
        THEN [S EXCEPT !.current_agent_name = agent_key,
                       !.ret = RetPair("success",
                                  <<"Switched to ">> \o Title(AgentText(agent_key))
                                  \o <<" Agent">>)]
        ELSE [S EXCEPT !.ret = RetPair("failure", UnknownAgentMessage(agent_identifier))]

\* the loop of clear_all_history over self.agents
RECURSIVE ClearThreads(_, _)
ClearThreads(S, names) ==
    IF names = <<>> THEN S
    ELSE IF ~HasThreads(S.orchestrator_type) THEN [S EXCEPT !.ret = Raised("AttributeError")]
    ELSE ClearThreads(NewThread(S, Head(names)), Tail(names))

\* clear_all_history
clear_all_history(S) ==
    LET S1 == ClearThreads([S EXCEPT !.ret = RetNone], S.agents)
    IN  IF S1.ret.kind = "raised" THEN S1
        ELSE [S1 EXCEPT !.current_agent_name = None]

\* list_agents
list_agents(S) ==
    [S EXCEPT !.ret = RetStr("agents", <<"Available Specialized Agents: ">> \o S.agents
                                        \o <<" active: ", S.current_agent_name>>)]

----------------------------------------------------------------------------
(* UserProxyAgent: operations *)

Entry(role, content, timestamp) ==
    [role |-> role, content |-> content, timestamp |-> timestamp]

\* a variant of LastEntries: the slice [-(n + 1):]
LastEntriesOneMore(history, n) ==
    IF Len(history) > n + 1 THEN SubSeq(history, Len(history) - n, Len(history))
    ELSE history

\* self.conversation_history[-20:]
LastEntries(history, n) ==
    IF Len(history) > n THEN SubSeq(history, Len(history) - n + 1, Len(history))
    ELSE history

\* a variant of _add_to_history: the slice [:20], that keeps the oldest entries
_add_to_history_keeps_oldest(S, role, content) ==
    LET entry == Entry(role, content, S.clock)
        history == Append(S.conversation_history, entry)
    IN  [S EXCEPT !.conversation_history =
                      IF Len(history) > HistoryCap THEN SubSeq(history, 1, HistoryCap)
                      ELSE history,
                  !.clock = @ + 1,
                  !.appended = Append(@, entry)]

\* _add_to_history
_add_to_history(S, role, content) ==
    LET entry == Entry(role, content, S.clock)
        history == Append(S.conversation_history, entry)
    IN  [S EXCEPT !.conversation_history =
                      IF Len(history) > HistoryCap THEN LastEntries(history, HistoryCap)
                      ELSE history,
                  !.clock = @ + 1,
                  !.appended = Append(@, entry)]

\* _get_follow_up_suggestions
_get_follow_up_suggestions(response, agent_info) ==
    LET info_lower == IF Truthy(agent_info) THEN Lower(agent_info) ELSE <<>>
        current_agent == IF Contains(info_lower, <<"g","i","t","h","u","b">>) THEN "github"
                         ELSE IF Contains(info_lower, <<"m","a","t","h">>) THEN "math"
                         ELSE None
    IN  IF current_agent = "github" /\ Contains(Lower(response), <<"r","e","p","o","s","i","t","o","r","i","e","s">>)
        THEN <<"What's next? browse files / file content">>
        ELSE IF current_agent = "github" /\ Contains(Lower(response), <<"f","i","l","e","s">>)
        THEN <<"What's next? view file / create issue">>
        ELSE IF current_agent = "math" /\ \E op \in {"+", "-", "*", "/", "="} :
                                              Contains(response, <<op>>)
        THEN <<"What's next? another calculation / complex expression">>
        ELSE <<"What's next? list agents / clear">>

\* _format_response
_format_response(response, agent_info, original_input) ==
    (IF Truthy(agent_info) THEN agent_info \o <<"\n", "\n">> ELSE <<>>)
    \o response \o <<"\n", "\n">> \o _get_follow_up_suggestions(response, agent_info)

\* the generator object of _stream_with_formatting, before its first step
ProxyGenerator(processed_input) ==
    [pc |-> "created", processed_input |-> processed_input, what |-> "none",
     items |-> <<>>, response_parts |-> <<>>, agent_info |-> NoText]

\* a variant of RequestClarification that does not count the clarification
RequestClarificationUncounted(S, clarification, stream) ==
    LET response == ClarificationMessage(clarification)
        S1 == [S EXCEPT !.waiting_for_clarification = TRUE,
                        !.clarification_context =
                            ClarificationContextAfter(@, clarification),
                        !.obs.clarified = clarification.type]
        S2 == _add_to_history(S1, "assistant", response)
    IN  IF stream
        THEN [S2 EXCEPT !.ret = RetGenerator("clarification", response,
                                    <<TextItem(response)>>)]
        ELSE [S2 EXCEPT !.ret = RetStr("clarification", response)]

\* process_message, lines 106-118: the clarification request
RequestClarification(S, clarification, stream) ==
    LET response == ClarificationMessage(clarification)
        S1 == [S EXCEPT !.waiting_for_clarification = TRUE,
                        !.delegation_stats.clarifications = @ + 1,
                        !.clarification_context =
                            ClarificationContextAfter(@, clarification),
                        !.obs.clarified = clarification.type]
        S2 == _add_to_history(S1, "assistant", response)
    IN  IF stream
        THEN [S2 EXCEPT !.ret = RetGenerator("clarification", response,
                                    <<TextItem(response)>>)]
        ELSE [S2 EXCEPT !.ret = RetStr("clarification", response)]

\* a variant of Delegate that does not count the delegation
DelegateUncounted(S, user_input, stream, env) ==
    LET processed_input == _preprocess_input(user_input, S.user_context)
        S1 == S
    IN  IF stream
        THEN [S1 EXCEPT !.ret = RetGenerator("delegated", processed_input, <<>>)]
        ELSE LET S2 == route_query(S1, processed_input, FALSE, env)
             IN  IF S2.ret.kind = "raised" THEN S2
                 ELSE LET formatted == _format_response(S2.ret.text, S2.ret.info,
                                                        user_input)
                      IN  [_add_to_history(S2, "assistant", formatted)
                             EXCEPT !.ret = RetStr("formatted", formatted)]

\* a variant of Delegate that answers with a text when route_query raises
DelegateSubstitutes(S, user_input, stream, env) ==
    LET processed_input == _preprocess_input(user_input, S.user_context)
        S1 == [S EXCEPT !.delegation_stats.agent_delegated = @ + 1]
    IN  IF stream
        THEN [S1 EXCEPT !.ret = RetGenerator("delegated", processed_input, <<>>)]
        ELSE LET S2 == route_query(S1, processed_input, FALSE, env)
                 formatted == IF S2.ret.kind = "raised" THEN <<"Something went wrong">>
                              ELSE _format_response(S2.ret.text, S2.ret.info,
                                                    user_input)
             IN  [_add_to_history(S2, "assistant", formatted)
                    EXCEPT !.ret = RetStr("formatted", formatted)]

\* process_message, lines 120-139: the delegation to the orchestrator
Delegate(S, user_input, stream, env) ==
    LET processed_input == _preprocess_input(user_input, S.user_context)
        S1 == [S EXCEPT !.delegation_stats.agent_delegated = @ + 1]
    IN  IF stream
        THEN [S1 EXCEPT !.ret = RetGenerator("delegated", processed_input, <<>>)]
        ELSE LET S2 == route_query(S1, processed_input, FALSE, env)
             IN  IF S2.ret.kind = "raised" THEN S2
                 ELSE LET formatted == _format_response(S2.ret.text, S2.ret.info,
                                                        user_input)
                      IN  [_add_to_history(S2, "assistant", formatted)
                             EXCEPT !.ret = RetStr("formatted", formatted)]

\* _handle_clarification_response, line 246: the answer accepts the suggestion
AcceptsSuggestion(user_input, context) ==
    /\ Tests[user_input].affirmative
    /\ "suggestion" \in DOMAIN context
    /\ context["type"] = <<"missing_repository">>

\* a variant of ApplySuggestion that confirms and does not keep the preference
ApplySuggestionUnsaved(S) ==
    [S EXCEPT !.ret = RetStr("confirmation",
                         <<"Set default repository to: ">>
                         \o S.clarification_context["suggestion"])]

\* _handle_clarification_response, lines 250-251
ApplySuggestion(S) ==
    [S EXCEPT !.user_context = DictSet(@, k_default_repo,
                                       S.clarification_context["suggestion"]),
              !.ret = RetStr("confirmation",
                         <<"Set default repository to: ">>
                         \o S.clarification_context["suggestion"])]

RECURSIVE process_message(_, _, _, _)

\* a variant of _handle_clarification_response that clears the pending flag
\* only on its second entry
_handle_clarification_response_flag_late(S, user_input, stream, env) ==
    LET S1 == [S EXCEPT !.waiting_for_clarification = (S.obs.depth = 0)]
    IN  IF AcceptsSuggestion(user_input, S1.clarification_context)
        THEN ApplySuggestion([S1 EXCEPT !.waiting_for_clarification = FALSE])
        ELSE process_message([S1 EXCEPT !.clarification_context = EmptyDict,
                                        !.obs.depth = @ + 1],
                             user_input, stream, env)

\* _handle_clarification_response
_handle_clarification_response(S, user_input, stream, env) ==
    LET S1 == [S EXCEPT !.waiting_for_clarification = FALSE]
    IN  IF AcceptsSuggestion(user_input, S1.clarification_context)
        THEN ApplySuggestion(S1)
        ELSE process_message([S1 EXCEPT !.clarification_context = EmptyDict,
                                        !.obs.depth = @ + 1],
                             user_input, stream, env)

\* process_message
process_message(S, user_input, stream, env) ==
    LET S1 == [_add_to_history(S, "user", user_input) EXCEPT !.obs.user_entries = @ + 1]
        clarification == _needs_clarification(user_input, S1.conversation_history,
                                              S1.user_context)
    IN  IF S1.waiting_for_clarification
        THEN _handle_clarification_response(S1, user_input, stream, env)
        ELSE IF clarification # NoClarification
        THEN RequestClarification(S1, clarification, stream)
        ELSE Delegate(S1, user_input, stream, env)

\* _stream_with_formatting, first step: the call of route_query.  g is the
\* generator; the result is the state with ret the generator after the call
\* (RetGenerator with its items), or what was raised
StreamStart(S, g, env) ==
    LET S1 == route_query(S, g.processed_input, TRUE, env)
    IN  IF S1.ret.kind = "raised" THEN S1
        ELSE IF S1.ret.kind # "generator"
        THEN \* async for over a tuple
             [S1 EXCEPT !.ret = Raised("TypeError")]
        ELSE S1

\* the loop of _stream_with_formatting over the chunks of the orchestrator:
\* [parts, info, raised] after the items
RECURSIVE ConsumeItems(_, _, _)
ConsumeItems(items, parts, agent_info) ==
    IF items = <<>> THEN [parts |-> parts, info |-> agent_info, raised |-> FALSE]
    ELSE LET chunk == Head(items)
         IN  IF chunk.t = "raise"
             THEN [parts |-> parts, info |-> agent_info, raised |-> TRUE]
             ELSE IF chunk.t = "sentinel"
             THEN \* chunk == (None, agent_info): continue; else agent_info = chunk[1]
                  ConsumeItems(Tail(items), parts, chunk.v)
             ELSE IF chunk.v # <<>>
             THEN ConsumeItems(Tail(items), parts \o chunk.v, agent_info)
             ELSE ConsumeItems(Tail(items), parts, agent_info)

\* a variant of StreamFinish that records what was received when the agent
\* raises
StreamFinishPartial(S, g) ==
    LET c == ConsumeItems(g.items, g.response_parts, g.agent_info)
    IN  IF c.raised
        THEN [_add_to_history(S, "assistant", c.parts)
                EXCEPT !.ret = Raised("agent"), !.obs.agent_runs = @ + 1]
        ELSE [_add_to_history(S, "assistant", c.parts)
                EXCEPT !.ret = RetStr("streamed", c.parts),
                       !.obs.agent_runs = @ + (IF g.what = "answer" THEN 1 ELSE 0)]

\* _stream_with_formatting to its end, from a started generator
StreamFinish(S, g) ==
    LET c == ConsumeItems(g.items, g.response_parts, g.agent_info)
    IN  IF c.raised THEN [S EXCEPT !.ret = Raised("agent"), !.obs.agent_runs = @ + 1]
        ELSE [_add_to_history(S, "assistant", c.parts)
                EXCEPT !.ret = RetStr("streamed", c.parts),
                       !.obs.agent_runs = @ + (IF g.what = "answer" THEN 1 ELSE 0)]


\* str.replace(old, '')
RECURSIVE RemoveAll(_, _)
RemoveAll(s, old) ==
    IF Len(s) < Len(old) THEN s
    ELSE IF StartsWith(s, old) THEN RemoveAll(SubSeq(s, Len(old) + 1, Len(s)), old)
    ELSE <<Head(s)>> \o RemoveAll(Tail(s), old)

\* the index of the first c in s, or 0
IndexOf(s, c) ==
    IF \E i \in DOMAIN s : s[i] = c
    THEN CHOOSE i \in DOMAIN s : s[i] = c /\ \A j \in 1..(i - 1) : s[j] # c
    ELSE 0

\* set_user_preference
set_user_preference(S, key, value) ==
    [S EXCEPT !.user_context = DictSet(@, key, value),
              !.ret = RetStr("preference", <<"Preference set: ">> \o key \o <<" = ">>
                                            \o value)]

\* a variant of clear_history that also drops a pending clarification
clear_history_drops_pending(S) ==
    LET S1 == clear_all_history([S EXCEPT !.conversation_history = <<>>,
                                          !.appended = <<>>,
                                          !.waiting_for_clarification = FALSE])
    IN  IF S1.ret.kind = "raised" THEN S1
        ELSE [S1 EXCEPT !.ret = RetStr("cleared", <<"Conversation history cleared">>)]

\* clear_history
clear_history(S) ==
    LET S1 == clear_all_history([S EXCEPT !.conversation_history = <<>>,
                                          !.appended = <<>>])
    IN  IF S1.ret.kind = "raised" THEN S1
        ELSE [S1 EXCEPT !.ret = RetStr("cleared", <<"Conversation history cleared">>)]

\* clear_context
clear_context(S) ==
    [S EXCEPT !.user_context = EmptyDict,
              !.ret = RetStr("cleared context", <<"User context cleared">>)]

\* get_status
get_status(S) ==
    [S EXCEPT !.ret = RetStr("status",
        <<"Current Agent: ", S.current_agent_name,
          " Conversation Messages: ", ToString(Len(S.conversation_history)),
          " User Preferences: ", ToString(Cardinality(DOMAIN S.user_context)),
          " Debug Mode: ", IF S.debug THEN "ON" ELSE "OFF">>)]

\* get_delegation_stats
get_delegation_stats(S) ==
    [S EXCEPT !.ret = RetStr("stats",
        <<"Proxy Handled: ", ToString(S.delegation_stats.proxy_handled),
          " Delegated to Agents: ", ToString(S.delegation_stats.agent_delegated),
          " Clarifications Requested: ", ToString(S.delegation_stats.clarifications)>>)]

Handled(S) == [S EXCEPT !.delegation_stats.proxy_handled = @ + 1]

\* handle_command, the branch of 'set ': parts = cmd.replace('set ', '').split('=', 1)
SetCommand(S, cmd) ==
    LET rest == RemoveAll(cmd, <<"s","e","t"," ">>)
        eq == IndexOf(rest, "=")
    IN  IF eq # 0
        THEN set_user_preference(Handled(S), Strip(SubSeq(rest, 1, eq - 1)),
                                 Strip(SubSeq(rest, eq + 1, Len(rest))))
        ELSE [Handled(S) EXCEPT !.ret = RetNone]

\* handle_command
handle_command(S, command) ==
    LET cmd == Strip(Lower(command))
    IN  CASE cmd \in {<<"h","e","l","p">>, <<"?">>} ->
               [Handled(S) EXCEPT !.ret = RetStr("help", <<"User Proxy Agent - Help">>)]
          [] cmd = <<"s","t","a","t","u","s">> -> get_status(Handled(S))
          [] cmd \in {<<"c","l","e","a","r">>, <<"r","e","s","e","t">>} -> clear_history(Handled(S))
          [] cmd = <<"c","l","e","a","r"," ","c","o","n","t","e","x","t">> -> clear_context(Handled(S))
          [] cmd = <<"l","i","s","t"," ","a","g","e","n","t","s">> -> list_agents(S)
          [] StartsWith(cmd, <<"s","w","i","t","c","h"," ">>) ->
               LET S1 == switch_agent(S, Strip(RemoveAll(cmd, <<"s","w","i","t","c","h"," ">>)))
               IN  [S1 EXCEPT !.ret = RetStr(S1.ret.what, S1.ret.text)]
          [] StartsWith(cmd, <<"s","e","t"," ">>) -> SetCommand(S, cmd)
          [] cmd = <<"d","e","b","u","g">> ->
               [S EXCEPT !.debug = ~S.debug,
                         !.ret = RetStr("debug", <<"Debug mode: ",
                                                   IF S.debug THEN "OFF" ELSE "ON">>)]
          [] cmd = <<"s","t","a","t","s">> -> get_delegation_stats(S)
          [] OTHER -> [S EXCEPT !.ret = RetNone]

----------------------------------------------------------------------------
(* The callers (src/chat.py, src/api/main_with_proxy.py, src/api/main.py)  *)
(* and what they send                                                      *)

Chunk(text, tool_calls) == [text |-> text, tool_calls |-> tool_calls]
\* runs of an agent: the chunks of run_stream, and whether it raises after them
RunAnswer == [chunks |-> <<Chunk(<<"8">>, <<>>)>>, raises |-> FALSE]
RunTools ==
    [chunks |-> <<Chunk(<<>>, <<"get_repos_by_user">>),
                  Chunk(<<"2"," ","r","e","p","o","s","i","t","o","r","i","e","s">>, <<"get_repos_by_user">>)>>,
     raises |-> FALSE]
RunRaises == [chunks |-> <<>>, raises |-> TRUE]
\* a run of three chunks that report three tools, two of them twice
RunTwoTools ==
    [chunks |-> <<Chunk(<<"a">>, <<"list_files", "get_file">>),
                  Chunk(<<"b">>, <<"list_files">>),
                  Chunk(<<"c">>, <<"create_issue", "get_file">>)>>,
     raises |-> FALSE]

Env(factory, run) == [factory |-> factory, decision |-> NoText, run |-> run]
\* the factories are called only by an orchestrator that is not initialized
Factories == IF initialized THEN {"ok"} ELSE FactoryOutcomes

\* the state after a call, and the record of the call
Becomes(S, op, input, stream) ==
    /\ user_context' = S.user_context
    /\ conversation_history' = S.conversation_history
    /\ waiting_for_clarification' = S.waiting_for_clarification
    /\ clarification_context' = S.clarification_context
    /\ debug' = S.debug
    /\ delegation_stats' = S.delegation_stats
    /\ orchestrator_type' = S.orchestrator_type
    /\ agents' = S.agents
    /\ threads' = S.threads
    /\ current_agent_name' = S.current_agent_name
    /\ initialized' = S.initialized
    /\ routing_rules' = S.routing_rules
    /\ clock' = S.clock
    /\ next_thread' = S.next_thread
    /\ appended' = S.appended
    /\ last' = [op |-> op, input |-> input, stream |-> stream, ret |-> S.ret,
                obs |-> S.obs]

Count(op) == calls' = [calls EXCEPT ![op] = @ + 1]

\* await proxy.process_message(user_input, stream)
ProcessMessage(user_input, stream, env) ==
    \E S \in {process_message(Self, user_input, stream, env)} :
        /\ Becomes(S, "process_message", user_input, stream)
        /\ generators' = IF S.ret.what = "delegated"
                         THEN Append(generators, ProxyGenerator(S.ret.text))
                         ELSE generators
        /\ calls' = [calls EXCEPT !.messages = @ + 1,
                                  !.streams = @ + (IF stream THEN 1 ELSE 0)]
        /\ UNCHANGED <<session_proxies, proxies, requests>>

\* the first step of the generator process_message returned
StartStream(i, env) ==
    /\ i \in DOMAIN generators
    /\ generators[i].pc = "created"
    /\ \E S \in {StreamStart(Self, generators[i], env)} :
           /\ Becomes(S, "stream start", generators[i].processed_input, TRUE)
           /\ generators' =
                 IF S.ret.kind = "raised"
                 THEN SubSeq(generators, 1, i - 1) \o SubSeq(generators, i + 1, Len(generators))
                 ELSE [generators EXCEPT ![i].pc = "started",
                                         ![i].what = S.ret.what,
                                         ![i].items = S.ret.items]
    /\ UNCHANGED <<calls, session_proxies, proxies, requests>>

\* the generator consumed to its end
FinishStream(i) ==
    /\ i \in DOMAIN generators
    /\ generators[i].pc = "started"
    /\ Becomes(StreamFinish(Self, generators[i]), "stream end",
               generators[i].processed_input, TRUE)
    /\ generators' = SubSeq(generators, 1, i - 1) \o SubSeq(generators, i + 1, Len(generators))
    /\ UNCHANGED <<calls, session_proxies, proxies, requests>>

\* the caller drops the generator without consuming it to the end
AbandonStream(i) ==
    /\ i \in DOMAIN generators
    /\ generators' = SubSeq(generators, 1, i - 1) \o SubSeq(generators, i + 1, Len(generators))
    /\ last' = [op |-> "stream abandoned", input |-> generators[i].processed_input,
                stream |-> TRUE, ret |-> RetNone, obs |-> NoObs]
    /\ UNCHANGED <<user_context, conversation_history, waiting_for_clarification,
                   clarification_context, debug, delegation_stats, orchestrator_type,
                   agents, threads, current_agent_name, initialized, routing_rules,
                   clock, next_thread, appended, calls, session_proxies, proxies,
                   requests>>

\* proxy.handle_command(command)
HandleCommand(command) ==
    /\ Becomes(handle_command(Self, command), "handle_command", command, FALSE)
    /\ Count("commands")
    /\ UNCHANGED <<generators, session_proxies, proxies, requests>>

\* await orchestrator.initialize()
Initialize(factory) ==
    /\ Becomes(initialize(Self, factory), "initialize", NoText, FALSE)
    /\ Count("direct")
    /\ UNCHANGED <<generators, session_proxies, proxies, requests>>

\* await orchestrator.route_query(user_input, stream)
RouteQuery(user_input, stream, env) ==
    /\ Becomes(route_query(Self, user_input, stream, env), "route_query", user_input,
               stream)
    /\ Count("direct")
    /\ UNCHANGED <<generators, session_proxies, proxies, requests>>

\* orchestrator.switch_agent(agent_identifier)
SwitchAgent(agent_identifier) ==
    /\ Becomes(switch_agent(Self, agent_identifier), "switch_agent", agent_identifier,
               FALSE)
    /\ Count("direct")
    /\ UNCHANGED <<generators, session_proxies, proxies, requests>>

\* orchestrator.clear_all_history()
ClearAllHistory ==
    /\ Becomes(clear_all_history(Self), "clear_all_history", NoText, FALSE)
    /\ Count("direct")
    /\ UNCHANGED <<generators, session_proxies, proxies, requests>>

\* the state after UserProxyAgent(orchestrator) of a new orchestrator
Init ==
    /\ user_context = EmptyDict
    /\ conversation_history = <<>>
    /\ waiting_for_clarification = FALSE
    /\ clarification_context = EmptyDict
    /\ debug = FALSE
    /\ delegation_stats = [proxy_handled |-> 0, agent_delegated |-> 0,
                           clarifications |-> 0]
    /\ orchestrator_type \in OrchestratorTypes
    /\ agents = <<>>
    /\ threads = EmptyDict
    /\ current_agent_name = None
    /\ initialized = FALSE
    /\ routing_rules = <<>>
    /\ clock = 0
    /\ next_thread = 1
    /\ generators = <<>>
    /\ appended = <<>>
    /\ last = [op |-> "construct", input |-> NoText, stream |-> FALSE, ret |-> RetNone,
               obs |-> NoObs]
    /\ calls = [messages |-> 0, streams |-> 0, commands |-> 0, direct |-> 0]
    /\ session_proxies = [k \in {} |-> 0]
    /\ proxies = <<>>
    /\ requests = <<>>

----------------------------------------------------------------------------
(* The conversation of a user with the proxy: any input, streamed or not,  *)
(* with the streams consumed at any time, and the commands.                *)

MaxMessages == 2
MaxCommands == 1
MaxGenerators == 1

Commands == {<<"c","l","e","a","r">>, <<"c","l","e","a","r"," ","c","o","n","t","e","x","t">>, <<"s","e","t"," ","d","e","f","a","u","l","t","_","r","e","p","o","=","a","c","m","e","/","w","i","d","g","e","t","s">>,
             <<"s","e","t"," ","d","e","f","a","u","l","t","_","r","e","p","o","=">>, <<"s","e","t"," ","v","e","r","b","o","s","e">>, <<"s","w","i","t","c","h"," ","c","a","l","c">>, <<"s","w","i","t","c","h"," ","n","o","b","o","d","y">>,
             <<"d","e","b","u","g">>, <<"s","t","a","t","s">>, <<"s","t","a","t","u","s">>, <<"h","e","l","p">>, <<"l","i","s","t"," ","a","g","e","n","t","s">>, <<"h","e","l","l","o">>}
Runs == {RunTools, RunRaises}

Next ==
    \/ \E user_input \in Inputs, stream \in BOOLEAN, factory \in Factories, run \in Runs :
          /\ calls.messages < MaxMessages
          /\ stream => Len(generators) < MaxGenerators
          /\ ProcessMessage(user_input, stream, Env(factory, run))
    \/ \E i \in DOMAIN generators, factory \in Factories, run \in Runs :
          StartStream(i, Env(factory, run))
    \/ \E i \in DOMAIN generators : FinishStream(i)
    \/ \E i \in DOMAIN generators : AbandonStream(i)
    \/ \E command \in Commands :
          calls.commands < MaxCommands /\ HandleCommand(command)

Spec == Init /\ [][Next]_vars

----------------------------------------------------------------------------
(* A user who answers the clarification requests of the proxy: more turns, *)
(* fewer texts.                                                            *)

MaxAnswers == 4
AnswerInputs == {<<"l","i","s","t"," ","f","i","l","e","s">>, <<"y","e","s">>, <<"y">>, <<"5"," ","+"," ","3">>}

NextAnswers ==
    \E user_input \in AnswerInputs, factory \in Factories, run \in Runs :
        /\ calls.messages < MaxAnswers
        /\ ProcessMessage(user_input, FALSE, Env(factory, run))

SpecAnswers == Init /\ [][NextAnswers]_vars

----------------------------------------------------------------------------
(* A long conversation: the history fills beyond its cap.  The user sends  *)
(* the next message when the stream of the last one has ended, as chat.py  *)
(* does, and the agents answer.                                            *)

MaxLongMessages == 9
MaxStreams == 1
MaxClears == 1
LongInputs == {<<"y","e","s">>, <<"5"," ","+"," ","3">>}

NextLong ==
    \/ \E user_input \in LongInputs, stream \in BOOLEAN :
          /\ calls.messages < MaxLongMessages
          /\ generators = <<>>
          /\ stream => calls.streams < MaxStreams
          /\ ProcessMessage(user_input, stream, Env("ok", RunAnswer))
    \/ \E i \in DOMAIN generators : StartStream(i, Env("ok", RunAnswer))
    \/ \E i \in DOMAIN generators : FinishStream(i)
    \/ calls.commands < MaxClears /\ HandleCommand(<<"c","l","e","a","r">>)

SpecLong == Init /\ [][NextLong]_vars

----------------------------------------------------------------------------
(* The callers of an orchestrator without a proxy (src/api/main.py)        *)

MaxDirect == 4
Identifiers == {<<"g","i","t","h","u","b">>, <<"g","i","t">>, <<"c","o","d","e">>, <<"m","a","t","h">>, <<"c","a","l","c">>, <<"c","a","l","c","u","l","a","t","o","r">>,
                <<"C","a","l","c">>, <<"n","o","b","o","d","y">>, <<"m","a","t","h","s">>}
DirectInputs == {<<"5"," ","+"," ","3">>, <<"s","h","o","w"," ","c","o","d","e">>, <<"y">>}
                \cup RoutingInputs
DirectRuns == Runs \cup {RunTwoTools}

NextOrchestrator ==
    \/ \E factory \in FactoryOutcomes :
          calls.direct < MaxDirect /\ Initialize(factory)
    \/ \E user_input \in DirectInputs, stream \in BOOLEAN, factory \in Factories,
          run \in DirectRuns :
          calls.direct < MaxDirect /\ RouteQuery(user_input, stream, Env(factory, run))
    \/ \E agent_identifier \in Identifiers :
          calls.direct < MaxDirect /\ SwitchAgent(agent_identifier)
    \/ calls.direct < MaxDirect /\ ClearAllHistory

SpecOrchestrator == Init /\ [][NextOrchestrator]_vars

----------------------------------------------------------------------------
(* The server with one proxy for each session (src/api/main_with_proxy.py). *)
(* The requests on one proxy are served one at a time; get_or_create_proxy  *)
(* is suspended at its await while the proxy is created.                    *)

MaxRequests == 3
SessionIds == {"s1", "s2"}
ServerMessages == {<<"5"," ","+"," ","3">>, <<"s","e","t"," ","d","e","f","a","u","l","t","_","r","e","p","o","=","a","c","m","e","/","w","i","d","g","e","t","s">>}

\* a request: its session, its message, where it stands (pc), the proxy it
\* got, and whether its session was cleared since it arrived
Request(session_id, message, pc, proxy) ==
    [session_id |-> session_id, message |-> message, pc |-> pc, proxy |-> proxy,
     cleared |-> FALSE]

\* UserProxyAgent(orchestrator, debug=False) of a new orchestrator
UserProxyAgent(type) ==
    [user_context |-> EmptyDict,
     conversation_history |-> <<>>,
     waiting_for_clarification |-> FALSE,
     clarification_context |-> EmptyDict,
     debug |-> FALSE,
     delegation_stats |-> [proxy_handled |-> 0, agent_delegated |-> 0,
                           clarifications |-> 0],
     orchestrator_type |-> type,
     agents |-> <<>>,
     threads |-> EmptyDict,
     current_agent_name |-> None,
     initialized |-> FALSE,
     routing_rules |-> <<>>,
     clock |-> 0,
     next_thread |-> 1,
     appended |-> <<>>,
     ret |-> RetNone,
     obs |-> NoObs]

\* what the server leaves alone: the variables of the single proxy
single == <<user_context, conversation_history, waiting_for_clarification,
            clarification_context, debug, delegation_stats, orchestrator_type,
            agents, threads, current_agent_name, initialized, routing_rules,
            clock, next_thread, generators, appended, last, calls>>

\* POST /agent_chat, up to the await in get_or_create_proxy: line 83 finds the
\* proxy of the session, or the request waits for a proxy to be created
AgentChat(session_id, message) ==
    /\ Len(requests) < MaxRequests
    /\ requests' = Append(requests,
                      IF session_id \in DOMAIN session_proxies
                      THEN Request(session_id, message, "proxy",
                                   session_proxies[session_id])
                      ELSE Request(session_id, message, "creating", 0))
    /\ UNCHANGED <<session_proxies, proxies>>
    /\ UNCHANGED single

\* get_or_create_proxy, lines 85-89: create_user_proxy_with_orchestrator has
\* returned or raised; the proxy of the type ORCHESTRATOR_TYPE is stored
\* under the session and read back
CreateProxy(r, factory) ==
    /\ r \in DOMAIN requests
    /\ requests[r].pc = "creating"
    /\ \E proxy \in {initialize(UserProxyAgent(orchestrator_type), factory)} :
          IF proxy.ret.kind = "raised"
          THEN /\ requests' = [requests EXCEPT ![r].pc = "failed"]
               /\ UNCHANGED <<session_proxies, proxies>>
          ELSE /\ proxies' = Append(proxies, proxy)
               /\ session_proxies' = [k \in DOMAIN session_proxies
                                             \cup {requests[r].session_id} |->
                                         IF k = requests[r].session_id
                                         THEN Len(proxies) + 1
                                         ELSE session_proxies[k]]
               /\ requests' = [requests EXCEPT ![r].pc = "proxy",
                                               ![r].proxy = Len(proxies) + 1]
    /\ UNCHANGED single

\* agent_chat, lines 163-194: the command, or the message, on the proxy of
\* the request; the agent answers
ServeRequest(r) ==
    /\ r \in DOMAIN requests
    /\ requests[r].pc = "proxy"
    /\ LET p == requests[r].proxy
           S == [proxies[p] EXCEPT !.ret = RetNone, !.obs = NoObs]
           command_response == handle_command(S, requests[r].message)
       IN  /\ proxies' =
                 [proxies EXCEPT ![p] =
                     IF command_response.ret # RetNone THEN command_response
                     ELSE process_message(S, requests[r].message, FALSE,
                                          Env("ok", RunAnswer))]
           /\ requests' = [requests EXCEPT ![r].pc = "done"]
    /\ UNCHANGED session_proxies
    /\ UNCHANGED single

\* POST /clear_session/{session_id}
clear_session(session_id) ==
    /\ session_id \in DOMAIN session_proxies
    /\ session_proxies' = [k \in DOMAIN session_proxies \ {session_id} |->
                              session_proxies[k]]
    /\ requests' = [i \in DOMAIN requests |->
                       IF requests[i].session_id = session_id
                       THEN [requests[i] EXCEPT !.cleared = TRUE]
                       ELSE requests[i]]
    /\ UNCHANGED proxies
    /\ UNCHANGED single

NextSessions ==
    \/ \E session_id \in SessionIds, message \in ServerMessages :
          AgentChat(session_id, message)
    \/ \E r \in DOMAIN requests, factory \in FactoryOutcomes : CreateProxy(r, factory)
    \/ \E r \in DOMAIN requests : ServeRequest(r)
    \/ \E session_id \in SessionIds : clear_session(session_id)

SpecSessions == Init /\ [][NextSessions]_vars

----------------------------------------------------------------------------
(* The server with one orchestrator for all sessions (src/api/main.py):    *)
(* the KeywordOrchestrator of startup_event serves every session_id.       *)

\* POST /agent_chat of main.py: route_query on the global orchestrator
ChatDirect(session_id, user_input, stream, run) ==
    /\ initialized
    /\ Len(requests) < MaxRequests
    /\ Becomes(route_query(Self, user_input, stream, Env("ok", run)), "route_query",
               user_input, stream)
    /\ Count("direct")
    /\ requests' = Append(requests, Request(session_id, user_input, "done", 0))
    /\ UNCHANGED <<generators, session_proxies, proxies>>

NextApi ==
    \/ \E factory \in FactoryOutcomes :
          /\ ~initialized
          /\ calls.direct < MaxDirect
          /\ Initialize(factory)
    \/ \E session_id \in SessionIds, user_input \in DirectInputs, stream \in BOOLEAN,
          run \in Runs :
          ChatDirect(session_id, user_input, stream, run)

\* orchestrator = KeywordOrchestrator()
InitKeyword == Init /\ orchestrator_type = "keyword"

SpecApi == InitKeyword /\ [][NextApi]_vars

----------------------------------------------------------------------------
(* Properties of the history (checked under SpecLong)                      *)

\* C1: after any sequence of process_message and handle_command calls on one
\* proxy, conversation_history never holds more than 20 entries.
C1_HistoryAtMostTwenty == Len(conversation_history) <= 20

\* reached: more than 20 entries were appended since a clear command, one of
\* the turns was streamed, and the history holds 20
C1_Witness ==
    /\ Len(appended) > 20
    /\ Len(conversation_history) = 20
    /\ calls.streams > 0
    /\ calls.commands > 0

\* C2: eviction is oldest-first: once more than 20 entries have been appended
\* with no clear in between, conversation_history is exactly the last 20
\* appended entries, in the order they were appended.
C2_HistoryIsLastTwentyAppended ==
    Len(appended) > 20 =>
        conversation_history = SubSeq(appended, Len(appended) - 19, Len(appended))

\* reached: 25 entries or more appended, the oldest survivor is the 20th from
\* the end and the newest is the last appended
C2_Witness ==
    /\ Len(appended) >= 25
    /\ conversation_history[1] = appended[Len(appended) - 19]
    /\ conversation_history[20] = appended[Len(appended)]
    /\ conversation_history[1].timestamp < conversation_history[20].timestamp

----------------------------------------------------------------------------
(* Properties of the clarification dialogue.  A step that is a call of     *)
(* process_message is one that counts a message; last' is its record.     *)

\* the texts among Inputs with a pronoun of trigger (a) as a whole word
WithPronoun == {u \in Inputs : \E w \in {<<"i","t">>, <<"t","h","a","t">>, <<"t","h","i","s">>, <<"t","h","e","r","e">>} :
                                  HasWord(Lower(u), w)}
\* with a domain keyword of trigger (b)
WithDomainKeyword ==
    {u \in Inputs : \E k \in {<<"f","i","l","e">>, <<"c","o","m","m","i","t">>, <<"b","r","a","n","c","h">>, <<"p","u","l","l"," ","r","e","q","u","e","s","t">>, <<"i","s","s","u","e">>} :
                       Contains(Lower(u), k)}
\* with an owner/repo-shaped token
WithRepoToken == {u \in Inputs : HasRepoToken(u)}
\* with the letters "repo" (as in "repo" and in "repository")
WithRepoWord == {u \in Inputs : Contains(u, <<"r","e","p","o">>)}
\* with a domain term of the preprocessing
WithDomainTerm ==
    {u \in Inputs : \E k \in {<<"f","i","l","e">>, <<"c","o","m","m","i","t">>, <<"b","r","a","n","c","h">>, <<"r","e","p","o">>, <<"c","o","d","e">>} :
                       Contains(Lower(u), k)}

\* what clarification detection finds for user_input, called in this state
Detected(user_input) ==
    _needs_clarification(user_input,
                         Append(conversation_history, Entry("user", user_input, clock)),
                         user_context)

\* C3: when no clarification is pending and clarification detection fires on
\* the input, the call of process_message sets waiting_for_clarification,
\* adds exactly 1 to the clarifications counter, returns the clarification
\* prompt, and does not call route_query (agent_delegated is unchanged).
C3_ClarificationRequested ==
    [][ ( /\ calls'.messages = calls.messages + 1
          /\ ~waiting_for_clarification
          /\ Detected(last'.input) # NoClarification )
        => ( /\ waiting_for_clarification'
             /\ delegation_stats'.clarifications = delegation_stats.clarifications + 1
             /\ last'.ret.what = "clarification"
             /\ last'.ret.text = ClarificationMessage(Detected(last'.input))
             /\ last'.obs.routed = <<>>
             /\ delegation_stats'.agent_delegated = delegation_stats.agent_delegated )
      ]_vars

\* reached: a first message answered with a clarification prompt
C3_Witness ==
    /\ last.op = "process_message"
    /\ last.obs.clarified # None
    /\ last.obs.depth = 0
    /\ last.ret.what = "clarification"
    /\ waiting_for_clarification
    /\ delegation_stats.clarifications = 1
    /\ delegation_stats.agent_delegated = 0

\* the call confirms the suggestion: the flag is cleared, the suggestion is the
\* default_repo preference, a confirmation is returned, route_query is not called
ConfirmsSuggestion ==
    /\ ~waiting_for_clarification'
    /\ DictGet(user_context', k_default_repo) = clarification_context["suggestion"]
    /\ last'.ret.kind = "str"
    /\ last'.ret.what = "confirmation"
    /\ Contains(last'.ret.text, clarification_context["suggestion"])
    /\ last'.obs.routed = <<>>
    /\ delegation_stats'.agent_delegated = delegation_stats.agent_delegated

\* C4 (as amended): when a clarification is pending, the next input is an
\* affirmative token, and the stored clarification context carries a
\* suggestion and has the type missing_repository, process_message clears the
\* pending flag, writes the suggestion into the user preferences, returns a
\* confirmation, and does not call route_query in that call.
C4_SuggestionOfMissingRepositoryConfirmed ==
    [][ ( /\ calls'.messages = calls.messages + 1
          /\ waiting_for_clarification
          /\ Lower(last'.input) \in {<<"y","e","s">>, <<"y">>, <<"o","k">>, <<"s","u","r","e">>, <<"d","e","f","a","u","l","t">>, <<"s","u","g","g","e","s","t","e","d">>}
          /\ "suggestion" \in DOMAIN clarification_context
          /\ clarification_context["type"] = <<"missing_repository">> )
        => ConfirmsSuggestion ]_vars

\* reached: "yes" to the request for a repository made the suggestion the
\* default_repo preference
C4_Witness ==
    /\ last.op = "process_message"
    /\ last.input = <<"y","e","s">>
    /\ last.ret.what = "confirmation"
    /\ ~waiting_for_clarification
    /\ DictGet(user_context, k_default_repo) = suggested_repo
    /\ delegation_stats.clarifications = 1
    /\ delegation_stats.agent_delegated = 0

\* C4 as stated: a pending clarification, an affirmative token and a stored
\* context that carries a suggestion are enough for the confirmation.  Not so
\* when the suggestion is left from an earlier clarification and the pending
\* one is of another type.
C4_AnySuggestionConfirmed ==
    [][ ( /\ calls'.messages = calls.messages + 1
          /\ waiting_for_clarification
          /\ Lower(last'.input) \in {<<"y","e","s">>, <<"y">>, <<"o","k">>, <<"s","u","r","e">>, <<"d","e","f","a","u","l","t">>, <<"s","u","g","g","e","s","t","e","d">>}
          /\ "suggestion" \in DOMAIN clarification_context )
        => ConfirmsSuggestion ]_vars

\* C5: when an ambiguous-pronoun input has triggered an ambiguous_reference
\* clarification, the following input is processed as a fresh query with the
\* pending flag cleared (process_message takes it again, with no clarification
\* pending and no stored context), and it never triggers an
\* ambiguous_reference clarification again, whatever its text.
C5_AnswerIsFreshQuery ==
    [][ ( /\ calls'.messages = calls.messages + 1
          /\ waiting_for_clarification
          /\ clarification_context["type"] = <<"ambiguous_reference">> )
        => ( /\ last'.obs.depth = 1
             /\ last'.obs.user_entries = 2
             /\ last'.obs.clarified # "ambiguous_reference"
             /\ waiting_for_clarification' = (last'.obs.clarified # None)
             /\ IF last'.obs.clarified = None
                THEN clarification_context' = EmptyDict
                ELSE clarification_context'["type"] = <<last'.obs.clarified>>
             /\ last'.obs.clarified = None =>
                   delegation_stats'.agent_delegated =
                       delegation_stats.agent_delegated + 1 ) ]_vars

\* reached: "it" as the first message was answered with a request, and the
\* next message, again with a pronoun, went to the orchestrator
C5_Witness ==
    /\ last.op = "process_message"
    /\ last.input \in WithPronoun
    /\ last.obs.depth = 1
    /\ last.obs.clarified = None
    /\ last.obs.routed = <<last.input>>
    /\ ~waiting_for_clarification
    /\ Len(conversation_history) >= 4
    /\ conversation_history[1].content \in WithPronoun
    /\ conversation_history[2].role = "assistant"
    /\ delegation_stats.clarifications = 1

\* C6 (as amended): an input containing an ambiguous pronoun triggers the
\* ambiguous_reference clarification exactly when it is sent while
\* conversation_history is empty and no clarification is pending, that is as
\* the first user message of a proxy with empty history; sent as the second
\* user message it does not trigger it.
C6_PronounTriggersOnEmptyHistory ==
    [][ ( /\ calls'.messages = calls.messages + 1
          /\ last'.input \in WithPronoun )
        => ( last'.obs.clarified = "ambiguous_reference"
             <=> (conversation_history = <<>> /\ ~waiting_for_clarification) ) ]_vars

\* reached: the first message holds a pronoun and is answered with the
\* ambiguous_reference request
C6_Witness ==
    /\ last.op = "process_message"
    /\ last.input \in WithPronoun
    /\ last.obs.clarified = "ambiguous_reference"
    /\ calls.messages = 1
    /\ Len(conversation_history) = 2
    /\ waiting_for_clarification

\* C6 as stated: the pronoun triggers the clarification in either of the first
\* two turns.  Not so for the second user message, with no clarification
\* pending: the history holds the first turn.
C6_PronounTriggersInFirstTwoTurns ==
    [][ ( /\ calls'.messages = calls.messages + 1
          /\ calls.messages < 2
          /\ calls.commands = 0
          /\ ~waiting_for_clarification
          /\ last'.input \in WithPronoun )
        => last'.obs.clarified = "ambiguous_reference" ]_vars

\* C7 (as amended): when trigger (a) does not fire, an input triggers the
\* missing_repository clarification exactly when it contains a domain keyword
\* (file, commit, branch, pull request, issue), contains neither an
\* owner/repo-shaped token nor the letters "repo" (so neither "repo" nor
\* "repository"), and is sent while default_repo is not set to a non-empty
\* value; no such clarification is triggered once default_repo is set.
C7_MissingRepositoryTrigger ==
    [][ ( /\ calls'.messages = calls.messages + 1
          /\ last'.obs.clarified # "ambiguous_reference" )
        => ( last'.obs.clarified = "missing_repository"
             <=> ( /\ last'.input \in WithDomainKeyword
                   /\ last'.input \notin WithRepoToken
                   /\ last'.input \notin WithRepoWord
                   /\ ~Truthy(DictGet(user_context, k_default_repo)) ) ) ]_vars

\* reached: a message with a domain keyword was answered with the request for
\* a repository; default_repo was set then; the same kind of message, sent
\* again, went to the orchestrator
C7_Witness ==
    /\ last.op = "process_message"
    /\ last.input \in WithDomainKeyword \ (WithRepoToken \cup WithRepoWord)
    /\ last.obs.clarified = None
    /\ last.obs.routed # <<>>
    /\ Truthy(DictGet(user_context, k_default_repo))
    /\ Len(conversation_history) >= 3
    /\ conversation_history[1].content \in WithDomainKeyword
    /\ conversation_history[2] =
          Entry("assistant",
                ClarificationMessage([type |-> "missing_repository",
                    message |-> <<"Which repository would you like to work with?">>,
                    suggestion |-> suggested_repo]),
                conversation_history[2].timestamp)

\* C7 as stated: a domain keyword, no owner/repo-shaped token and no
\* default_repo are enough for the missing_repository clarification.  Not so
\* for an input that holds the word "repo".
C7_KeywordWithoutTokenTriggers ==
    [][ ( /\ calls'.messages = calls.messages + 1
          /\ last'.obs.clarified # "ambiguous_reference" )
        => ( /\ ( /\ last'.input \in WithDomainKeyword
                  /\ last'.input \notin WithRepoToken
                  /\ ~Truthy(DictGet(user_context, k_default_repo)) )
                => last'.obs.clarified = "missing_repository"
             /\ Truthy(DictGet(user_context, k_default_repo))
                => last'.obs.clarified # "missing_repository" ) ]_vars

\* what the proxy sends to route_query for user_input, with the preference repo
SentFor(user_input, sent, repo) ==
    IF Truthy(repo) /\ user_input \in WithDomainTerm \ WithRepoToken
    THEN /\ StartsWith(sent, user_input)
         /\ Len(sent) > Len(user_input)
         /\ Contains(SubSeq(sent, Len(user_input) + 1, Len(sent)), repo)
    ELSE sent = user_input

\* C8: with a default_repo preference set, a delegated input that mentions a
\* domain term (file, commit, branch, repo, code) and has no owner/repo-shaped
\* token is sent to route_query with an annotation naming the default
\* repository appended, while the role=user entry stored in
\* conversation_history for that turn is the original input; an input with an
\* owner/repo token or without a domain term is sent unchanged.  (A streamed
\* turn sends its text when the stream starts.)
C8_DefaultRepositoryAnnotation ==
    [][ /\ ( /\ calls'.messages = calls.messages + 1
             /\ delegation_stats'.agent_delegated = delegation_stats.agent_delegated + 1 )
           => ( /\ IF last'.stream
                   THEN /\ Len(generators') = Len(generators) + 1
                        /\ SentFor(last'.input,
                                   generators'[Len(generators')].processed_input,
                                   DictGet(user_context, k_default_repo))
                   ELSE /\ Len(last'.obs.routed) = 1
                        /\ SentFor(last'.input, last'.obs.routed[1],
                                   DictGet(user_context, k_default_repo))
                /\ Len(appended') > Len(appended)
                /\ \A i \in (Len(appended) + 1)..Len(appended') :
                      appended'[i].role = "user" => appended'[i].content = last'.input
                /\ appended'[Len(appended) + 1].role = "user"
                /\ \E i \in DOMAIN conversation_history' :
                      conversation_history'[i] = appended'[Len(appended) + 1] )
        /\ ( last'.op = "stream start" /\ generators' # generators )
           => \E i \in DOMAIN generators :
                 /\ generators[i].pc = "created"
                 /\ last'.obs.routed = <<generators[i].processed_input>>
      ]_vars

\* reached: default_repo is acme/widgets, a message with a domain term went
\* to route_query with the annotation, and the history holds the message as sent
\* by the user
C8_Witness ==
    /\ last.op = "process_message"
    /\ last.input \in WithDomainTerm \ WithRepoToken
    /\ DictGet(user_context, k_default_repo) = <<"a","c","m","e","/","w","i","d","g","e","t","s">>
    /\ Len(last.obs.routed) = 1
    /\ last.obs.routed[1] # last.input
    /\ Contains(last.obs.routed[1], <<"a","c","m","e","/","w","i","d","g","e","t","s">>)
    /\ \E i \in DOMAIN conversation_history :
          /\ conversation_history[i].role = "user"
          /\ conversation_history[i].content = last.input
    /\ \A i \in DOMAIN conversation_history :
          conversation_history[i].role = "user" =>
             ~Contains(conversation_history[i].content, <<"a","c","m","e","/","w","i","d","g","e","t","s">>)

----------------------------------------------------------------------------
(* Properties of the orchestrators (checked under SpecOrchestrator)        *)

Aliases == {<<"g","i","t","h","u","b">>, <<"g","i","t">>, <<"c","o","d","e">>, <<"m","a","t","h">>, <<"c","a","l","c">>, <<"c","a","l","c","u","l","a","t","o","r">>}
Resolved(alias) == IF alias \in {<<"g","i","t","h","u","b">>, <<"g","i","t">>, <<"c","o","d","e">>} THEN "github" ELSE "math"

\* C9: on an initialized orchestrator, switch_agent with a known name or alias
\* (github, git, code, math, calc, calculator, in any letter case) returns
\* success and sets current_agent_name to the resolved specialist; with any
\* other identifier it returns failure with a message listing the valid
\* aliases, raises nothing, and leaves current_agent_name unchanged.
C9_SwitchAgent ==
    [][ ( /\ calls'.direct = calls.direct + 1
          /\ last'.op = "switch_agent"
          /\ initialized )
        => IF Lower(last'.input) \in Aliases
           THEN /\ last'.ret.kind = "pair"
                /\ last'.ret.what = "success"
                /\ current_agent_name' = Resolved(Lower(last'.input))
           ELSE /\ last'.ret.kind = "pair"
                /\ last'.ret.what = "failure"
                /\ \A alias \in Aliases : Contains(last'.ret.text, alias)
                /\ current_agent_name' = current_agent_name ]_vars

\* reached: the current specialist was github, and switch_agent("calculator")
\* made it math
C9_Witness ==
    /\ last.op = "switch_agent"
    /\ last.input = <<"c","a","l","c","u","l","a","t","o","r">>
    /\ last.ret.what = "success"
    /\ initialized
    /\ current_agent_name = "math"
    /\ calls.direct >= 3

\* C10: on each of the three orchestrators, after initialize, a call of
\* clear_all_history completes, replaces the thread of every registered
\* specialist with a fresh handle, and leaves current_agent_name equal to none.
C10_ClearAllHistory ==
    [][ ( /\ calls'.direct = calls.direct + 1
          /\ last'.op = "clear_all_history"
          /\ initialized )
        => ( /\ last'.ret.kind # "raised"
             /\ current_agent_name' = None
             /\ \A name \in Range(agents) :
                   /\ name \in DOMAIN threads'
                   /\ threads'[name] >= next_thread
             /\ \A name \in Range(agents), other \in Range(agents) :
                   threads'[name] = threads'[other] => name = other ) ]_vars

\* reached: clear_all_history raised on an initialized orchestrator whose
\* current specialist was set, and the current specialist is still set
C10_Witness ==
    /\ last.op = "clear_all_history"
    /\ last.ret.kind = "raised"
    /\ initialized
    /\ current_agent_name # None

----------------------------------------------------------------------------
(* Properties of the threads and of the current specialist (checked under  *)
(* SpecOrchestrator)                                                       *)

\* C11: after initialize completes on any of the three orchestrators, a thread
\* exists for every registered specialist and no two specialists share a
\* thread handle, so that route_query with a selection dispatches to the
\* selected agent with its own thread (it does not fail for want of one).
C11_ThreadPerSpecialist ==
    [][ /\ initialized' =>
              /\ \A name \in Range(agents') : name \in DOMAIN threads'
              /\ \A name \in Range(agents'), other \in Range(agents') :
                    threads'[name] = threads'[other] => name = other
        /\ ( /\ calls'.direct = calls.direct + 1
             /\ last'.op = "route_query"
             /\ last'.obs.selected # None )
           => last'.ret # Raised("AttributeError") ]_vars

\* reached: on the initialized rule-based orchestrator no specialist has a
\* thread, and route_query with a selection raised AttributeError
C11_Witness ==
    /\ orchestrator_type = "rule"
    /\ initialized
    /\ agents = <<"github", "math">>
    /\ DOMAIN threads = {}
    /\ last.op = "route_query"
    /\ last.obs.selected # None
    /\ last.ret = Raised("AttributeError")

\* C12: in every reachable state of an orchestrator, under any sequence of
\* initialize, route_query, switch_agent and clear_all_history,
\* current_agent_name is none or the identifier of exactly one specialist of
\* the agent registry.
C12_CurrentIsRegistered ==
    \/ current_agent_name = None
    \/ Cardinality({i \in DOMAIN agents : agents[i] = current_agent_name}) = 1

\* reached: route_query of the rule-based orchestrator made github the current
\* specialist before it raised, and github is registered
C12_Witness ==
    /\ orchestrator_type = "rule"
    /\ last.op = "route_query"
    /\ last.obs.selected = "github"
    /\ last.ret.kind = "raised"
    /\ current_agent_name = "github"
    /\ agents = <<"github", "math">>
    /\ calls.direct >= 3

\* the switch notice a returned value of route_query carries: the second
\* element of the tuple, or what the sentinel that ends the stream holds
NoticeOf(ret) ==
    IF ret.kind = "tuple" THEN ret.info ELSE ret.items[Len(ret.items)].v
\* route_query returned, and if it returned a stream, the stream ends
Returned(ret) ==
    \/ ret.kind = "tuple"
    \/ ret.kind = "generator" /\ ret.items[Len(ret.items)].t = "sentinel"

\* C13: route_query returns a non-empty switch notice exactly when the
\* selection of the strategy differs from current_agent_name at the time of
\* the call, and after any route_query with a selection current_agent_name is
\* that selection; a query routed to the current specialist carries no notice.
\* On the keyword and the LLM orchestrator the call returns unless the agent
\* raises.
C13_SwitchNotice ==
    [][ ( /\ calls'.direct = calls.direct + 1
          /\ last'.op = "route_query" )
        => IF last'.obs.selected = None
           THEN Returned(last'.ret) => NoticeOf(last'.ret) = NoText
           ELSE /\ current_agent_name' = last'.obs.selected
                /\ Returned(last'.ret) =>
                      /\ NoticeOf(last'.ret) # NoText
                            <=> current_agent_name # last'.obs.selected
                      /\ NoticeOf(last'.ret) # NoText =>
                            Contains(NoticeOf(last'.ret),
                                     Title(AgentText(last'.obs.selected)))
                /\ ( orchestrator_type \in {"keyword", "llm"}
                     /\ ~last'.obs.run.raises ) => Returned(last'.ret) ]_vars

\* reached: two queries in a row were routed to math by the keyword
\* orchestrator, and the second came back without a notice
C13_Witness ==
    /\ orchestrator_type = "keyword"
    /\ calls.direct = 2
    /\ last.op = "route_query"
    /\ last.obs.selected = "math"
    /\ last.ret.kind = "tuple"
    /\ last.ret.what = "answer"
    /\ last.ret.info = NoText
    /\ current_agent_name = "math"

----------------------------------------------------------------------------
(* Properties of the keyword strategy and of a query that selects nobody   *)
(* (checked under SpecOrchestrator)                                        *)

\* the texts among DirectInputs that hold a keyword of a specialist
WithRoutingKeyword ==
    {u \in DirectInputs :
        \E k \in {<<"g","i","t","h","u","b">>, <<"r","e","p","o","s","i","t","o","r","y">>, <<"r","e","p","o">>, <<"c","o","d","e">>, <<"f","i","l","e">>, <<"b","r","a","n","c","h">>,
                  <<"c","o","m","m","i","t">>, <<"p","u","l","l">>, <<"i","s","s","u","e">>, <<"f","o","r","k">>, <<"c","a","l","c","u","l","a","t","e">>, <<"m","a","t","h">>,
                  <<"a","d","d">>, <<"s","u","b","t","r","a","c","t">>, <<"m","u","l","t","i","p","l","y">>, <<"d","i","v","i","d","e">>, <<"e","q","u","a","t","i","o","n">>,
                  <<"e","x","p","r","e","s","s","i","o","n">>, <<"n","u","m","b","e","r">>, <<"c","o","m","p","u","t","e">>} : Contains(Lower(u), k)}
\* that hold digits, an operator and digits, or "what is" and digits
WithNumericPattern ==
    {u \in DirectInputs : HasMathPattern(u) \/ HasWhatIsNumber(Lower(u))}
\* that match zero keywords and no numeric pattern
Unroutable == DirectInputs \ (WithRoutingKeyword \cup WithNumericPattern)

\* C14: for every input that matches zero keywords and no numeric pattern, the
\* keyword strategy returns no selection (and for every other input it returns
\* one), and route_query returns the static help text without calling any
\* agent and with current_agent_name and all threads unchanged.  (A call on an
\* orchestrator that is not initialized initializes it first: the threads are
\* then the ones initialize created, or the call raises what the factory
\* raised.)
C14_NoSelectionReturnsHelp ==
    [][ ( /\ calls'.direct = calls.direct + 1
          /\ last'.op = "route_query"
          /\ orchestrator_type = "keyword" )
        => /\ last'.ret.what # "factory" =>
                 (last'.obs.selected = None <=> last'.input \in Unroutable)
           /\ last'.input \in Unroutable =>
                 /\ last'.obs.agent_runs = 0
                 /\ current_agent_name' = current_agent_name
                 /\ IF initialized
                    THEN /\ threads' = threads
                         /\ agents' = agents
                         /\ last'.ret.what = "help"
                    ELSE \/ last'.ret = Raised("factory")
                         \/ last'.ret.what = "help" /\ initialized'
                 /\ last'.ret.what = "help" =>
                       IF last'.stream
                       THEN last'.ret.items =
                               << [t |-> "text", v |-> get_agent_selection_help("keyword")],
                                  [t |-> "sentinel", v |-> NoText] >>
                       ELSE /\ last'.ret.kind = "tuple"
                            /\ last'.ret.text = get_agent_selection_help("keyword")
                            /\ last'.ret.info = NoText ]_vars

\* reached: the current specialist of the keyword orchestrator was math, and a
\* query with no keyword came back with the help text and left it math
C14_Witness ==
    /\ orchestrator_type = "keyword"
    /\ last.op = "route_query"
    /\ last.input \in Unroutable
    /\ last.ret.what = "help"
    /\ last.obs.selected = None
    /\ last.obs.agent_runs = 0
    /\ current_agent_name = "math"
    /\ DOMAIN threads = {"github", "math"}

----------------------------------------------------------------------------
(* Properties of a message that no specialist is selected for (checked     *)
(* under Spec)                                                             *)

\* a call of process_message without streaming went to route_query, the
\* strategy selected nobody, and the help came back
EndsInAmbiguity ==
    /\ calls'.messages = calls.messages + 1
    /\ ~last'.stream
    /\ last'.obs.routed # <<>>
    /\ last'.obs.selected = None
    /\ last'.ret.what = "formatted"

\* the entries such a call appends: the input with role=user (twice when the
\* message answered a clarification request), then the reply
AppendsTurn ==
    /\ Len(appended') = Len(appended) + last'.obs.user_entries + 1
    /\ \A i \in (Len(appended) + 1)..(Len(appended') - 1) :
          appended'[i].role = "user" /\ appended'[i].content = last'.input
    /\ appended'[Len(appended')].role = "assistant"
    /\ appended'[Len(appended')].content = last'.ret.text
    /\ conversation_history'[Len(conversation_history')] = appended'[Len(appended')]

\* C15 (as amended): when a message processed by the proxy ends in routing
\* ambiguity, the state that differs after the call is conversation_history
\* (the appended entries) and the agent_delegated counter, which is one more;
\* a clarification that was pending is cleared with its context; the
\* preferences, the other counters and current_agent_name are unchanged, and
\* so is an initialized orchestrator.
C15_AmbiguityCountsDelegation ==
    [][ EndsInAmbiguity
        => /\ AppendsTurn
           /\ user_context' = user_context
           /\ delegation_stats' =
                 [delegation_stats EXCEPT !.agent_delegated = @ + 1]
           /\ ~waiting_for_clarification'
           /\ clarification_context' =
                 (IF waiting_for_clarification THEN EmptyDict
                  ELSE clarification_context)
           /\ current_agent_name' = current_agent_name
           /\ debug' = debug
           /\ initialized =>
                 /\ agents' = agents
                 /\ threads' = threads
                 /\ routing_rules' = routing_rules
                 /\ initialized' ]_vars

\* reached: after a message routed to math, the message "y" came back with the
\* help; math is still the current specialist, and two delegations are counted
C15_Witness ==
    /\ last.op = "process_message"
    /\ ~last.stream
    /\ last.input = <<"y">>
    /\ last.obs.selected = None
    /\ last.ret.what = "formatted"
    /\ current_agent_name = "math"
    /\ delegation_stats.agent_delegated = 2
    /\ Len(conversation_history) >= 3

\* C15 as stated: only conversation_history differs after such a call; the
\* preferences, the clarification flag and context, all delegation counters
\* and current_agent_name are unchanged.  Not so for agent_delegated.
C15_OnlyHistoryDiffers ==
    [][ EndsInAmbiguity
        => /\ user_context' = user_context
           /\ waiting_for_clarification' = waiting_for_clarification
           /\ clarification_context' = clarification_context
           /\ delegation_stats' = delegation_stats
           /\ current_agent_name' = current_agent_name ]_vars

----------------------------------------------------------------------------
(* Properties of initialize (checked under SpecOrchestrator)               *)

\* C16: initialize is idempotent: a second call on an orchestrator whose first
\* call completed is a no-op that adds no registry entries, adds no routing
\* rules (rule-based), replaces no threads, and does not reset
\* current_agent_name; route_query on an orchestrator that is not initialized
\* initializes it first (or raises what a factory raised), and on an
\* initialized one it initializes nothing again.
C16_InitializeIdempotent ==
    [][ calls'.direct = calls.direct + 1
        => /\ ( last'.op = "initialize" /\ initialized )
              => /\ last'.ret = RetNone
                 /\ agents' = agents
                 /\ routing_rules' = routing_rules
                 /\ threads' = threads
                 /\ next_thread' = next_thread
                 /\ current_agent_name' = current_agent_name
                 /\ initialized'
           /\ ( last'.op = "route_query" /\ ~initialized )
              => \/ last'.ret = Raised("factory") /\ ~initialized'
                 \/ /\ initialized'
                    /\ agents' = <<"github", "math">>
                    /\ orchestrator_type = "rule" => Len(routing_rules') = 8
                    /\ orchestrator_type = "keyword" =>
                          DOMAIN threads' = {"github", "math"}
           /\ ( last'.op = "route_query" /\ initialized )
              => /\ agents' = agents
                 /\ routing_rules' = routing_rules
                 /\ threads' = threads
                 /\ initialized'
           /\ Len(agents') <= 2
           /\ Len(routing_rules') \in {0, 8} ]_vars

\* reached: initialize was called again on the initialized rule-based
\* orchestrator whose current specialist was math; the eight rules and the
\* current specialist are as they were
C16_Witness ==
    /\ orchestrator_type = "rule"
    /\ last.op = "initialize"
    /\ last.ret = RetNone
    /\ initialized
    /\ calls.direct >= 3
    /\ Len(routing_rules) = 8
    /\ agents = <<"github", "math">>
    /\ current_agent_name = "math"

----------------------------------------------------------------------------
(* Properties of the streams route_query returns (checked under            *)
(* SpecOrchestrator)                                                       *)

\* the positions of the final tuple among the items of a stream
SentinelPositions(items) == {i \in DOMAIN items : items[i].t = "sentinel"}
\* the agent raised while the stream was consumed
RaisesInside(items) == \E i \in DOMAIN items : items[i].t = "raise"

\* C17: every stream route_query returns with stream=True, consumed to the
\* end, yields the switch-notice sentinel exactly once and as its last
\* element, on the dispatch path and on the help path; nothing follows the
\* sentinel.  A stream whose agent raises cannot be consumed to the end: it
\* ends with the exception and yields no sentinel at all.
C17_SentinelLast ==
    [][ ( /\ calls'.direct = calls.direct + 1
          /\ last'.op = "route_query"
          /\ last'.ret.kind = "generator" )
        => LET items == last'.ret.items
           IN  /\ last'.stream
               /\ items # <<>>
               /\ \A i \in SentinelPositions(items) : i = Len(items)
               /\ IF RaisesInside(items)
                  THEN /\ SentinelPositions(items) = {}
                       /\ items[Len(items)].t = "raise"
                  ELSE /\ SentinelPositions(items) = {Len(items)}
                       /\ \A i \in 1..(Len(items) - 1) : items[i].t = "text"
               /\ last'.ret.what = "help" =>
                     /\ Len(items) = 2
                     /\ items[2] = SentinelItem(NoText) ]_vars

\* reached: the keyword orchestrator returned a dispatch stream whose agent
\* called tools; the stream ends with the tool summary and then the sentinel
C17_Witness ==
    /\ orchestrator_type = "keyword"
    /\ last.op = "route_query"
    /\ last.stream
    /\ last.ret.kind = "generator"
    /\ last.ret.what = "answer"
    /\ Len(last.ret.items) >= 3
    /\ last.ret.items[Len(last.ret.items)].t = "sentinel"
    /\ last.ret.items[Len(last.ret.items)].v # NoText
    /\ last.ret.items[Len(last.ret.items) - 1].t = "text"
    /\ Contains(last.ret.items[Len(last.ret.items) - 1].v, <<"Tools used: ">>)


\* an item that announces a tool, the item of the tool summary, and the
\* items that carry the text of a chunk
IsAnnouncement(item) ==
    item.t = "text" /\ Len(item.v) = 2 /\ item.v[1] = "Calling tool: "
IsSummary(item) ==
    item.t = "text" /\ item.v # <<>> /\ item.v[1] = "Tools used: "
IsChunkText(item) ==
    item.t = "text" /\ ~IsAnnouncement(item) /\ ~IsSummary(item)
\* the chunks of a run that carry text, and the tools a run reports
WithText(chunks) == {k \in DOMAIN chunks : chunks[k].text # <<>>}
Reported(chunks) ==
    UNION {{chunks[k].tool_calls[j] : j \in DOMAIN chunks[k].tool_calls} :
              k \in DOMAIN chunks}
FirstReport(chunks, tool) ==
    CHOOSE k \in DOMAIN chunks :
        /\ \E j \in DOMAIN chunks[k].tool_calls : chunks[k].tool_calls[j] = tool
        /\ \A h \in 1..(k - 1) :
              \A j \in DOMAIN chunks[h].tool_calls : chunks[h].tool_calls[j] # tool

\* C18: in a streaming route_query the text chunks are yielded in the order
\* the agent generated them, and for each distinct tool name an announcement
\* is yielded exactly once, at the first chunk that reports the tool and
\* before that chunk's own text; later reports of the tool yield none.
C18_StreamOrder ==
    [][ ( /\ calls'.direct = calls.direct + 1
          /\ last'.op = "route_query"
          /\ last'.ret.kind = "generator"
          /\ last'.ret.what = "answer" )
        => LET items == last'.ret.items
               chunks == last'.obs.run.chunks
               texts == SelectSeq(items, IsChunkText)
               spoken == SelectSeq(chunks, LAMBDA c : c.text # <<>>)
           IN  /\ Len(texts) = Len(spoken)
               /\ \A i \in DOMAIN texts : texts[i].v = spoken[i].text
               /\ \A i \in DOMAIN items :
                     IsAnnouncement(items[i]) => items[i].v[2] \in Reported(chunks)
               /\ \A tool \in Reported(chunks) :
                     LET at == {i \in DOMAIN items :
                                   IsAnnouncement(items[i]) /\ items[i].v[2] = tool}
                         k == FirstReport(chunks, tool)
                     IN  /\ Cardinality(at) = 1
                         /\ \A i \in at :
                               Cardinality({j \in 1..(i - 1) : IsChunkText(items[j])})
                                  = Cardinality({h \in WithText(chunks) : h < k}) ]_vars

\* reached: a stream of the keyword orchestrator over a run whose second and
\* third chunk report again a tool an earlier chunk reported; four items come
\* before the text of the second chunk, two announcements among them
C18_Witness ==
    /\ orchestrator_type = "keyword"
    /\ last.op = "route_query"
    /\ last.ret.kind = "generator"
    /\ last.ret.what = "answer"
    /\ last.obs.run = RunTwoTools
    /\ Len(last.ret.items) = 8
    /\ IsAnnouncement(last.ret.items[1])
    /\ IsAnnouncement(last.ret.items[2])
    /\ last.ret.items[3].v = <<"a">>
    /\ last.ret.items[4].v = <<"b">>
    /\ last.ret.items[5].v = <<"Calling tool: ", "create_issue">>
    /\ last.ret.items[6].v = <<"c">>


\* the tool names of all chunks in the order the agent reported them, and
\* the same with every name kept at its first place only
RECURSIVE ReportedInOrder(_)
ReportedInOrder(chunks) ==
    IF chunks = <<>> THEN <<>>
    ELSE ReportedInOrder(SubSeq(chunks, 1, Len(chunks) - 1))
         \o chunks[Len(chunks)].tool_calls
RECURSIVE FirstSeen(_)
FirstSeen(names) ==
    IF names = <<>> THEN <<>>
    ELSE LET before == FirstSeen(SubSeq(names, 1, Len(names) - 1))
         IN  IF \E i \in DOMAIN before : before[i] = names[Len(names)]
             THEN before ELSE Append(before, names[Len(names)])
\* the texts of all chunks, one after the other
RECURSIVE Concatenated(_)
Concatenated(chunks) ==
    IF chunks = <<>> THEN <<>>
    ELSE Concatenated(SubSeq(chunks, 1, Len(chunks) - 1)) \o chunks[Len(chunks)].text

\* C19: in non-streaming mode route_query returns the concatenation of all
\* agent text chunks in generation order, followed by a tools-used trailer
\* that lists each invoked tool name once in first-seen order; the trailer is
\* absent exactly when the agent invoked no tool.  Stated for every
\* orchestrator and every query that selects a specialist whose agent answers.
C19_TextAndTrailer ==
    [][ ( /\ calls'.direct = calls.direct + 1
          /\ last'.op = "route_query"
          /\ ~last'.stream
          /\ last'.obs.selected # None )
        => \E run \in DirectRuns :
              IF run.raises THEN last'.ret = Raised("agent")
              ELSE /\ last'.ret.kind = "tuple"
                   /\ last'.ret.what = "answer"
                   /\ LET tools == FirstSeen(ReportedInOrder(run.chunks))
                      IN  last'.ret.text =
                             Concatenated(run.chunks)
                             \o (IF tools = <<>> THEN <<>> ELSE ToolSummary(tools)) ]_vars

\* reached: the rule-based orchestrator selected a specialist for a query in
\* non-streaming mode and raised AttributeError instead of returning a text
C19_Witness ==
    /\ orchestrator_type = "rule"
    /\ last.op = "route_query"
    /\ ~last.stream
    /\ last.obs.selected # None
    /\ last.obs.agent_runs = 0
    /\ last.ret = Raised("AttributeError")

----------------------------------------------------------------------------
(* The boost of the math pattern (checked under SpecOrchestrator)          *)

\* how many keywords of a specialist a text holds
RawCount(name, u) ==
    Cardinality({i \in DOMAIN get_agent_keywords(name) :
                    Contains(Lower(u), get_agent_keywords(name)[i])})
\* the texts among DirectInputs with digits, an operator and digits, and as
\* many github keywords as math keywords
PatternAndEqualCounts ==
    {u \in DirectInputs :
        HasMathPattern(u) /\ RawCount("github", u) = RawCount("math", u)}

\* C20: for every input that contains a digit-operator-digit pattern and
\* whose raw github keyword count equals its raw math keyword count, the
\* keyword strategy selects math, because of the +5 boost.
C20_BoostSelectsMath ==
    [][ ( /\ calls'.direct = calls.direct + 1
          /\ last'.op = "route_query"
          /\ orchestrator_type = "keyword"
          /\ last'.input \in PatternAndEqualCounts
          /\ last'.ret # Raised("factory") )
        => /\ last'.obs.selected = "math"
           /\ current_agent_name' = "math" ]_vars

\* reached: the keyword orchestrator routed an input with the pattern, one
\* github keyword and one math keyword to math
C20_Witness ==
    /\ orchestrator_type = "keyword"
    /\ last.op = "route_query"
    /\ last.input = <<"a","d","d"," ","2","*","3"," ","t","o"," ","f","i","l","e">>
    /\ HasMathPattern(last.input)
    /\ RawCount("github", last.input) = 1
    /\ RawCount("math", last.input) = 1
    /\ last.obs.selected = "math"
    /\ last.ret.what = "answer"
    /\ current_agent_name = "math"

----------------------------------------------------------------------------
(* The rule-based strategy (checked under SpecOrchestrator)                *)

\* the places of the rules of a list whose predicate is true of a text
Matching(rules, u) == {i \in DOMAIN rules : rules[i].name \in Tests[u].rules}

\* C21: the rule-based strategy evaluates the rules in descending priority
\* order and returns the target of the first rule whose predicate is true:
\* whenever two rules both match an input, the target of the one with the
\* higher priority is returned (no matching rule has a higher priority than
\* the rule that decided), and when no rule matches there is no selection.
C21_FirstMatchByPriority ==
    [][ ( /\ calls'.direct = calls.direct + 1
          /\ last'.op = "route_query"
          /\ orchestrator_type = "rule"
          /\ last'.ret # Raised("factory") )
        => LET rules == routing_rules'
               matching == Matching(rules, last'.input)
           IN  /\ Len(rules) = 8
               /\ \A i, j \in DOMAIN rules :
                     i < j => rules[i].priority >= rules[j].priority
               /\ matching = {} <=> last'.obs.selected = None
               /\ matching # {} =>
                     \E i \in matching :
                        /\ last'.obs.selected = rules[i].agent_key
                        /\ \A j \in matching :
                              /\ i <= j
                              /\ rules[j].priority <= rules[i].priority ]_vars

\* reached: an input that matches a rule of priority 95 for math and a rule
\* of priority 10 for github was routed by the rules, to math
C21_Witness ==
    /\ orchestrator_type = "rule"
    /\ last.op = "route_query"
    /\ last.input = <<"a","d","d"," ","2","*","3"," ","t","o"," ","f","i","l","e">>
    /\ \E i, j \in Matching(routing_rules, last.input) :
          /\ routing_rules[i].priority = 95 /\ routing_rules[i].agent_key = "math"
          /\ routing_rules[j].priority = 10 /\ routing_rules[j].agent_key = "github"
    /\ last.obs.selected = "math"
    /\ current_agent_name = "math"

----------------------------------------------------------------------------
(* The LLM strategy (checked under SpecOrchestrator)                       *)

\* C22: when the classification call fails or returns anything other than a
\* registered specialist identifier or none, the selection of the LLM
\* strategy for an input equals the selection the keyword strategy
\* (KeywordOrchestrator.get_agent_by_keywords) makes for the same input.
\* The classification call fails on every query, self.routing_agent being
\* assigned nowhere.
C22_FallbackIsKeywordStrategy ==
    [][ ( /\ calls'.direct = calls.direct + 1
          /\ last'.op = "route_query"
          /\ orchestrator_type = "llm"
          /\ last'.ret # Raised("factory") )
        => last'.obs.selected = get_agent_by_keywords(last'.input) ]_vars

\* reached: the LLM orchestrator made no selection for 'what is 7' and
\* returned the help text, while the keyword strategy selects math for it
C22_Witness ==
    /\ orchestrator_type = "llm"
    /\ last.op = "route_query"
    /\ last.input = <<"w","h","a","t"," ","i","s"," ","7">>
    /\ last.obs.selected = None
    /\ last.ret.what = "help"
    /\ Tests[last.input].by_keywords = "math"
    /\ Tests[last.input].by_fallback = None


\* C23: the select of the LLM strategy never raises: a trimmed, lowercased
\* answer equal to a registered identifier is returned as the selection, an
\* answer equal to none yields no selection, and any failure of the
\* classification call is recovered by the keyword fallback and is never
\* surfaced to the caller of route_query as an error.
C23_AnswerIsSelection ==
    ( /\ orchestrator_type = "llm"
      /\ last.op = "route_query"
      /\ initialized )
    => /\ last.ret.kind = "raised" => last.ret = Raised("agent")
       /\ \A n \in Range(agents) :
             get_agent_by_llm(Self, last.input, AgentText(n)) = n
       /\ get_agent_by_llm(Self, last.input, <<"n","o","n","e">>) = None

\* reached: the LLM orchestrator answered 'hello' with the help text, the
\* keyword fallback having selected nobody; an answer 'math' of the
\* classifier would not have been the selection
C23_Witness ==
    /\ orchestrator_type = "llm"
    /\ last.op = "route_query"
    /\ last.input = <<"h","e","l","l","o">>
    /\ initialized
    /\ last.obs.selected = None
    /\ last.ret.what = "help"
    /\ get_agent_by_llm(Self, last.input, <<"m","a","t","h">>) = None

----------------------------------------------------------------------------
(* The failure of the selected agent (checked under Spec)                  *)

\* the entries a step appended to conversation_history
AppendedInStep ==
    SubSeq(appended', Len(appended) + 1, Len(appended'))
\* a started generator of the proxy whose agent raises when it is consumed
StartedAndRaising(g) ==
    g.pc = "started" /\ \E i \in DOMAIN g.items : g.items[i].t = "raise"

----------------------------------------------------------------------------
(* The sessions of the server (checked under SpecSessions)                 *)

\* the requests that got a proxy and whose session was not cleared since
Standing == {r \in DOMAIN requests : requests[r].proxy # 0 /\ ~requests[r].cleared}
\* the message of a request is in the history its session's proxy appended
Remembered(r) ==
    LET proxy == proxies[session_proxies[requests[r].session_id]]
    IN  \E i \in DOMAIN proxy.appended :
           /\ proxy.appended[i].role = "user"
           /\ proxy.appended[i].content = requests[r].message

\* C25: the server keeps one proxy per session identifier: for any
\* interleaving of requests, including two concurrent first requests for the
\* same session_id that both suspend inside proxy creation, every request for
\* that session_id operates on the same proxy instance until the session is
\* explicitly cleared, so no request's history, preference or clarification
\* state is lost.
C25_OneProxyPerSession ==
    /\ \A r1, r2 \in Standing :
          requests[r1].session_id = requests[r2].session_id
          => requests[r1].proxy = requests[r2].proxy
    /\ \A r \in Standing :
          ( /\ requests[r].pc = "done"
            /\ requests[r].session_id \in DOMAIN session_proxies )
          => IF requests[r].message = <<"5"," ","+"," ","3">>
             THEN Remembered(r)
             ELSE DictGet(proxies[session_proxies[requests[r].session_id]].user_context,
                          k_default_repo) = <<"a","c","m","e","/","w","i","d","g","e","t","s">>

\* reached: two first requests of session s1 were served by two proxies; the
\* first set the default repository and the second proxy, which is the one
\* the session keeps, does not have it
C25_Witness ==
    /\ Len(requests) >= 2
    /\ requests[1].session_id = "s1" /\ requests[2].session_id = "s1"
    /\ requests[1].pc = "done" /\ requests[2].pc = "done"
    /\ ~requests[1].cleared /\ ~requests[2].cleared
    /\ requests[1].proxy # requests[2].proxy
    /\ requests[1].message = <<"s","e","t"," ","d","e","f","a","u","l","t","_","r","e","p","o","=","a","c","m","e","/","w","i","d","g","e","t","s">>
    /\ "s1" \in DOMAIN session_proxies
    /\ session_proxies["s1"] = requests[2].proxy
    /\ DictGet(proxies[requests[1].proxy].user_context, k_default_repo) = <<"a","c","m","e","/","w","i","d","g","e","t","s">>
    /\ DictGet(proxies[requests[2].proxy].user_context, k_default_repo) = NoText

----------------------------------------------------------------------------
(* The sessions of the server without proxies (checked under SpecApi)      *)

\* the specialist of the last request of a session that selected one, among
\* the requests served so far
OwnSpecialist(session_id) ==
    LET own == SelectSeq(requests,
                         LAMBDA q : /\ q.session_id = session_id
                                    /\ get_agent_by_keywords(q.message) # None)
    IN  IF own = <<>> THEN None ELSE get_agent_by_keywords(own[Len(own)].message)

\* C26: sessions are independent: a request made under one session
\* identifier never changes the current specialist, history, preferences,
\* clarification flag or counters observed by another session identifier, and
\* the response to a request (including its switch notice) depends only on
\* the request history of its own session: an answer carries a switch notice
\* exactly when its specialist differs from the specialist of the session's
\* own last routed request.
C26_SessionsIndependent ==
    [][ ( /\ Len(requests') = Len(requests) + 1
          /\ last'.op = "route_query"
          /\ last'.ret.kind = "tuple"
          /\ last'.ret.what = "answer" )
        => ( last'.ret.info # NoText
             <=> last'.obs.selected
                    # OwnSpecialist(requests'[Len(requests')].session_id) ) ]_vars

\* reached: the first request of session s2 was answered without a switch
\* notice, session s1 having sent the same message before
C26_Witness ==
    /\ Len(requests) = 2
    /\ requests[1].session_id = "s1"
    /\ requests[2].session_id = "s2"
    /\ requests[1].message = <<"5"," ","+"," ","3">>
    /\ requests[2].message = <<"5"," ","+"," ","3">>
    /\ last.op = "route_query"
    /\ last.obs.selected = "math"
    /\ last.ret.kind = "tuple"
    /\ last.ret.what = "answer"
    /\ last.ret.info = NoText


----------------------------------------------------------------------------
(* Clearing (checked under Spec)                                           *)

IsClearCommand(command) == command \in {<<"c","l","e","a","r">>, <<"r","e","s","e","t">>}

\* C27: the command clear (or reset) empties the conversation history and
\* resets the current specialist to none, and leaves the user preferences as
\* they were; the command clear context empties the user preferences and
\* leaves the history and the current specialist as they were; a
\* clear_all_history called on the orchestrator alone leaves the
\* conversation history as it was.
C27_ClearCommands ==
    [][ /\ ( last'.op = "handle_command" /\ IsClearCommand(last'.input) )
           => /\ conversation_history' = <<>>
              /\ current_agent_name' = None
              /\ user_context' = user_context
        /\ ( last'.op = "handle_command" /\ last'.input = <<"c","l","e","a","r"," ","c","o","n","t","e","x","t">> )
           => /\ user_context' = EmptyDict
              /\ conversation_history' = conversation_history
              /\ current_agent_name' = current_agent_name
        /\ last'.op = "clear_all_history"
           => conversation_history' = conversation_history ]_vars

\* reached: clear was sent while a specialist was current and the history
\* held entries
C27_Witness ==
    /\ last.op = "handle_command"
    /\ IsClearCommand(last.input)
    /\ conversation_history = <<>>
    /\ calls.messages > 0
    /\ agents # <<>>


----------------------------------------------------------------------------
(* The assistant entry of a streamed turn (checked under Spec)             *)

\* the elements _stream_with_formatting yields from the stream of the
\* orchestrator: its non-empty strings, in order
YieldedFromStream(items) ==
    SelectSeq(items, LAMBDA chunk : chunk.t = "text" /\ chunk.v # <<>>)

RECURSIVE JoinYielded(_)
JoinYielded(yielded) ==
    IF yielded = <<>> THEN <<>>
    ELSE Head(yielded).v \o JoinYielded(Tail(yielded))

WithoutGenerator(i) ==
    SubSeq(generators, 1, i - 1) \o SubSeq(generators, i + 1, Len(generators))

\* C28: in streaming mode the assistant entry is appended only when the
\* stream of the orchestrator has been consumed to its end (not when
\* process_message returns the generator, not when the generator starts, not
\* when the agent raises), and its content is the concatenation, in order, of
\* the text elements yielded from that stream; an abandoned stream appends
\* nothing.
C28_StreamedEntry ==
    [][ /\ ( /\ last'.op = "process_message"
             /\ Len(generators') > Len(generators) )
           => \A i \in DOMAIN AppendedInStep : AppendedInStep[i].role = "user"
        /\ last'.op = "stream start"
           => appended' = appended /\ conversation_history' = conversation_history
        /\ last'.op = "stream abandoned"
           => appended' = appended /\ conversation_history' = conversation_history
        /\ last'.op = "stream end"
           => \E i \in DOMAIN generators :
                 /\ generators[i].pc = "started"
                 /\ generators' = WithoutGenerator(i)
                 /\ IF RaisesInside(generators[i].items)
                    THEN /\ appended' = appended
                         /\ conversation_history' = conversation_history
                    ELSE LET entry == Entry("assistant",
                                        JoinYielded(YieldedFromStream(generators[i].items)),
                                        clock)
                         IN  /\ AppendedInStep = <<entry>>
                             /\ conversation_history' = Append(conversation_history, entry) ]_vars

\* reached: a stream of three text elements (the tool announcement, the
\* answer and the tool summary) was consumed to its end and the history ends
\* with their concatenation
C28_Witness ==
    /\ last.op = "stream end"
    /\ last.ret.kind = "str"
    /\ conversation_history # <<>>
    /\ conversation_history[Len(conversation_history)].role = "assistant"
    /\ conversation_history[Len(conversation_history)].content = last.ret.text
    /\ last.ret.text = <<"Calling tool: ", "get_repos_by_user">>
                        \o <<"2"," ","r","e","p","o","s","i","t","o","r","i","e","s">>
                        \o <<"Tools used: ", "get_repos_by_user">>


----------------------------------------------------------------------------
(* Equal keyword scores: a keyword orchestrator that is sent TieInputs     *)

NextTies ==
    \E user_input \in TieInputs, stream \in BOOLEAN, factory \in Factories,
       run \in DirectRuns :
       calls.direct < MaxDirect /\ RouteQuery(user_input, stream, Env(factory, run))

SpecTies == InitKeyword /\ [][NextTies]_vars

\* the score of a specialist after the boosts
BoostedScore(name, u) ==
    RawCount(name, u)
    + (IF name = "math" /\ HasMathPattern(u) THEN MathBoost ELSE 0)
    + (IF name = "math" /\ HasWhatIsNumber(Lower(u)) THEN WhatIsBoost ELSE 0)
\* the texts that score the same for github and for math, above zero
EqualScores ==
    {u \in TieInputs : /\ BoostedScore("github", u) = BoostedScore("math", u)
                       /\ BoostedScore("github", u) > 0}

\* C29: when the github score and the math score of an input are equal and
\* greater than zero after the boosts, the keyword strategy selects github,
\* the first specialist of the keyword table, on every call: whatever was
\* routed before, route_query selects github for such an input once the
\* agents are there.
C29_TieSelectsGithub ==
    [][ ( /\ last'.op = "route_query"
          /\ last'.input \in EqualScores )
        => /\ get_agent_by_keywords(last'.input) = "github"
           /\ last'.ret # Raised("factory") => last'.obs.selected = "github" ]_vars

\* reached: after an earlier request, a text with three points for github
\* and three for math (the boost of "what is 7") was routed to github
C29_Witness ==
    /\ last.op = "route_query"
    /\ last.input = <<"w","h","a","t"," ","i","s"," ","7"," ","r","e","p","o"," ","c","o","d","e"," ","f","i","l","e">>
    /\ BoostedScore("github", last.input) = 3
    /\ BoostedScore("math", last.input) = 3
    /\ last.obs.selected = "github"
    /\ current_agent_name = "github"
    /\ last.ret.info # NoText
    /\ calls.direct > 1


----------------------------------------------------------------------------
(* The user entries of a turn (checked under SpecAnswers)                  *)

\* the entries with role user that the step appended to the history
UserEntriesInStep ==
    SelectSeq(AppendedInStep, LAMBDA entry : entry.role = "user")

\* C30: every call of process_message by the caller appends exactly one
\* entry with role user to the conversation history, also when the input
\* answers a pending clarification and is then processed as a fresh query.
C30_OneUserEntry ==
    [][ calls'.messages = calls.messages + 1
        => Len(UserEntriesInStep) = 1 ]_vars

\* reached: "list files" answered a pending clarification and was processed
\* as a fresh query; the history holds it twice in a row
C30_Witness ==
    /\ last.op = "process_message"
    /\ last.input = <<"l","i","s","t"," ","f","i","l","e","s">>
    /\ last.obs.depth = 1
    /\ last.obs.user_entries = 2
    /\ Len(conversation_history) >= 3
    /\ \E i \in 1..(Len(conversation_history) - 1) :
          /\ conversation_history[i].role = "user"
          /\ conversation_history[i + 1].role = "user"
          /\ conversation_history[i].content = last.input
          /\ conversation_history[i + 1].content = last.input


----------------------------------------------------------------------------
(* The depth of process_message (checked under SpecAnswers)                *)

\* C31: process_message calls itself at most once: the call made by the
\* clarification-answer branch finds the pending flag cleared, so it does
\* not enter that branch again; it takes the input as a fresh query (it
\* never ends in the confirmation of a suggestion), and the recursion
\* happens only when a clarification was pending.
C31_DepthAtMostOne ==
    [][ calls'.messages = calls.messages + 1
        => /\ last'.obs.depth \in {0, 1}
           /\ last'.obs.depth = 1
              => /\ waiting_for_clarification
                 /\ last'.ret.what # "confirmation"
                 /\ last'.obs.user_entries = 2
           /\ ~waiting_for_clarification => last'.obs.depth = 0 ]_vars

\* reached: a clarification was pending, the answer "5 + 3" was taken as a
\* fresh query by the one recursive call, and the agent answered it
C31_Witness ==
    /\ last.op = "process_message"
    /\ last.input = <<"5"," ","+"," ","3">>
    /\ last.obs.depth = 1
    /\ last.ret.what = "formatted"
    /\ ~waiting_for_clarification
    /\ delegation_stats.clarifications > 0


----------------------------------------------------------------------------
(* The pending flag between calls (checked under Spec)                     *)

\* a call of process_message by the caller, and one that ended in an exception
ProcessMessageStep == calls'.messages = calls.messages + 1
ProcessMessageRaised == ProcessMessageStep /\ last'.ret.kind = "raised"

\* what C32 says of the calls that return and of everything that is not a
\* call of process_message: a call that returns sets the flag exactly when
\* it gives back a clarification prompt; handle_command and the steps of a
\* stream leave the flag as it was
FlagSetByReturningCalls ==
    /\ ( ProcessMessageStep /\ ~ProcessMessageRaised )
       => ( waiting_for_clarification' <=> last'.ret.what = "clarification" )
    /\ ( ProcessMessageStep /\ last'.ret.what \in {"confirmation", "formatted", "delegated"} )
       => ~waiting_for_clarification'
    /\ ~ProcessMessageStep
       => waiting_for_clarification' = waiting_for_clarification

\* C32: between calls, waiting_for_clarification is true exactly when the
\* most recent call of process_message that ended gave back a clarification
\* prompt: a call that returns sets the flag exactly when it returns a
\* prompt, a call that raises leaves the flag false, and handle_command and
\* the steps of a stream never change it.
C32_FlagFollowsLastCall ==
    [][ /\ FlagSetByReturningCalls
        /\ ProcessMessageRaised => ~waiting_for_clarification' ]_vars

\* C32 as stated: the flag follows the most recent call that returned, so a
\* call that raises leaves it as it was.
C32_FlagFollowsLastReturn ==
    [][ /\ FlagSetByReturningCalls
        /\ ProcessMessageRaised
           => waiting_for_clarification' = waiting_for_clarification ]_vars

\* reached: on the keyword orchestrator a clarification prompt was returned,
\* the answer "5 + 3" was delegated and the agent raised; the flag is false
\* though the last call that returned gave back a prompt
C32_Witness ==
    /\ orchestrator_type = "keyword"
    /\ last.op = "process_message"
    /\ last.input = <<"5"," ","+"," ","3">>
    /\ last.ret = Raised("agent")
    /\ last.obs.depth = 1
    /\ delegation_stats.clarifications = 1
    /\ calls.messages = 2
    /\ ~waiting_for_clarification


----------------------------------------------------------------------------
(* What process_message returns in streaming mode (checked under Spec)     *)

\* C33: process_message called with stream=True returns a stream on every
\* path on which it returns, the clarification prompt and the confirmation
\* of a suggestion included; it never returns a plain string.
C33_StreamingReturnsStream ==
    [][ ( /\ ProcessMessageStep
          /\ last'.stream
          /\ ~ProcessMessageRaised )
        => last'.ret.kind = "generator" ]_vars

\* reached: a missing_repository prompt was pending, "yes" was sent with
\* stream=True, and the call returned the confirmation as a plain string
C33_Witness ==
    /\ last.op = "process_message"
    /\ last.stream
    /\ last.input = <<"y","e","s">>
    /\ last.ret.kind = "str"
    /\ last.ret.what = "confirmation"
    /\ k_default_repo \in DOMAIN user_context


----------------------------------------------------------------------------
(* The delegation counter and the calls of route_query (checked under Spec) *)

\* the streams process_message returned that have not called route_query yet
NotStarted(gs) == Cardinality({i \in DOMAIN gs : gs[i].pc = "created"})

\* C34: agent_delegated counts the calls of route_query by the proxy, after
\* any sequence of streaming and non-streaming calls: in every step the
\* counter grows by the calls of route_query made in the step, a stream
\* that was returned and may still be consumed being counted ahead of its
\* call; so a stream that is never consumed leaves the counter equal to the
\* number of calls.
C34_DelegatedCountsRouteQuery ==
    [][ delegation_stats'.agent_delegated - delegation_stats.agent_delegated
        = Len(last'.obs.routed) + NotStarted(generators') - NotStarted(generators) ]_vars

\* reached: "5 + 3" was sent with stream=True and the stream was dropped
\* before its first element; route_query was never called (no agent was
\* created, no specialist is current) and agent_delegated is 1
C34_Witness ==
    /\ last.op = "stream abandoned"
    /\ last.input = <<"5"," ","+"," ","3">>
    /\ calls.messages = 1
    /\ calls.commands = 0
    /\ generators = <<>>
    /\ delegation_stats.agent_delegated = 1
    /\ ~initialized
    /\ agents = <<>>
    /\ current_agent_name = None


----------------------------------------------------------------------------
(* Inputs that are not commands (checked under Spec)                       *)

\* the state of the proxy and of its orchestrator
ProxyAndOrchestrator ==
    <<user_context, conversation_history, waiting_for_clarification,
      clarification_context, debug, delegation_stats, orchestrator_type,
      agents, threads, current_agent_name, initialized, routing_rules,
      next_thread>>

\* C35: whenever handle_command returns no result, it leaves the state of
\* the proxy (the counters, the debug flag, the preferences, the history,
\* the pending clarification) and the orchestrator as they were; in
\* particular for an input that starts with set and has no key=value pair.
C35_NoResultNoChange ==
    [][ ( /\ last'.op = "handle_command"
          /\ last'.ret.kind = "none" )
        => UNCHANGED ProxyAndOrchestrator ]_vars

\* reached: handle_command("set verbose") returned no result and counted
\* the input as handled by the proxy
C35_Witness ==
    /\ last.op = "handle_command"
    /\ last.input = <<"s","e","t"," ","v","e","r","b","o","s","e">>
    /\ last.ret.kind = "none"
    /\ delegation_stats.proxy_handled = 1
    /\ user_context = EmptyDict


----------------------------------------------------------------------------
(* A manual switch and the next query (checked under SpecOrchestrator)     *)

\* what the strategy of the orchestrator selects for a text, computed from
\* the text (and the rules) alone
StrategySelection(user_input) ==
    CASE orchestrator_type = "keyword" -> get_agent_by_keywords(user_input)
      [] orchestrator_type = "rule" -> get_agent_by_rules(routing_rules', user_input)
      [] orchestrator_type = "llm" -> _fallback_keyword_routing(user_input)

\* a call of route_query that got as far as the selection
RouteQuerySelected ==
    /\ calls'.direct = calls.direct + 1
    /\ last'.op = "route_query"
    /\ last'.ret # Raised("factory")

\* C36: a manual switch_agent is not sticky.  The specialist of a
\* route_query is the selection of the strategy for the text, whatever
\* current_agent_name is: a query the strategy maps to Y is dispatched to Y
\* and makes Y current, also when switch_agent(X) came just before it, and a
\* query with no selection gets the help text, runs no agent and leaves
\* current_agent_name as it was.
C36_SwitchNotSticky ==
    [][ RouteQuerySelected
        => /\ last'.obs.selected = StrategySelection(last'.input)
           /\ IF last'.obs.selected # None
              THEN current_agent_name' = last'.obs.selected
              ELSE /\ last'.ret.what = "help"
                   /\ last'.obs.agent_runs = 0
                   /\ current_agent_name' = current_agent_name ]_vars

\* reached: after two other calls, with math not current, "5 + 3" was
\* answered by math with the notice of a switch on the keyword orchestrator
C36_Witness ==
    /\ orchestrator_type = "keyword"
    /\ last.op = "route_query"
    /\ last.input = <<"5"," ","+"," ","3">>
    /\ last.obs.selected = "math"
    /\ last.obs.agent_runs = 1
    /\ last.ret.what = "answer"
    /\ last.ret.info = SwitchNotice("keyword", "math")
    /\ current_agent_name = "math"
    /\ calls.direct >= 3


----------------------------------------------------------------------------
(* A dispatch that fails (checked under SpecOrchestrator)                  *)

\* a call of route_query that selected a specialist and raised in the
\* dispatch: the lookup of the thread, or the call of the agent
DispatchFailed ==
    /\ RouteQuerySelected
    /\ last'.obs.selected # None
    /\ last'.ret \in {Raised("AttributeError"), Raised("agent")}

\* C37: when the dispatch to the selected agent fails inside route_query,
\* current_agent_name keeps the value it had before the call, so the failed
\* turn switches no specialist.
C37_FailedDispatchKeepsCurrent ==
    [][ DispatchFailed => current_agent_name' = current_agent_name ]_vars

\* reached: the first call of a keyword orchestrator, "5 + 3", failed in the
\* agent; math is current although no answer and no notice were returned
C37_Witness ==
    /\ orchestrator_type = "keyword"
    /\ calls.direct = 1
    /\ last.op = "route_query"
    /\ last.input = <<"5"," ","+"," ","3">>
    /\ ~last.stream
    /\ last.ret = Raised("agent")
    /\ last.obs.selected = "math"
    /\ current_agent_name = "math"


----------------------------------------------------------------------------
(* The two paths of route_query (checked under SpecOrchestrator)           *)

\* the string elements of a stream that are not tool announcements, joined
StreamedText(items) ==
    JoinYielded(SelectSeq(items, LAMBDA item : item.t = "text" /\ ~IsAnnouncement(item)))

\* what the same call returns without streaming: the same orchestrator
\* before the call, the same text, the same run of the agent
NonStreaming ==
    route_query(Self, last'.input, FALSE, Env("ok", last'.obs.run))

\* C38: for the same input, agent output and prior state, the two paths of
\* route_query agree: the string elements of the stream without the tool
\* announcements, joined in order, are the response text of the
\* non-streaming call with its tools-used trailer, the final tuple carries
\* the switch notice the non-streaming call returns, and both leave the same
\* specialist current.  When the agent raises, the stream raises at its end
\* and the non-streaming call raises.
C38_PathsAgree ==
    [][ ( /\ RouteQuerySelected
          /\ last'.stream
          /\ last'.ret.kind = "generator" )
        => LET items == last'.ret.items
           IN  \E other \in {NonStreaming} :
                 /\ other.current_agent_name = current_agent_name'
                 /\ other.obs.selected = last'.obs.selected
                 /\ IF RaisesInside(items)
                    THEN other.ret = Raised("agent")
                    ELSE /\ other.ret.kind = "tuple"
                         /\ other.ret.what = last'.ret.what
                         /\ StreamedText(items) = other.ret.text
                         /\ items[Len(items)] = SentinelItem(other.ret.info) ]_vars

\* reached: a stream of the keyword orchestrator for a run that reports
\* three tools in three chunks; it holds three announcements, and without
\* them it reads as the non-streaming response with its trailer
C38_Witness ==
    /\ orchestrator_type = "keyword"
    /\ last.op = "route_query"
    /\ last.stream
    /\ last.ret.kind = "generator"
    /\ last.ret.what = "answer"
    /\ last.obs.run = RunTwoTools
    /\ Cardinality({i \in DOMAIN last.ret.items : IsAnnouncement(last.ret.items[i])}) = 3
    /\ StreamedText(last.ret.items) = ResponseText(RunTwoTools.chunks)
    /\ last.ret.items[Len(last.ret.items)] = SentinelItem(SwitchNotice("keyword", last.obs.selected))

====
